---------------------------- MODULE Spec2Model ----------------------------
(***************************************************************************)
(* Maze generation pipeline of mazegen-v3: the Grid providers              *)
(* (rectangular-grid.ts, hexagonal-grid.ts), the randomized Kruskal        *)
(* spanning tree (spanning-tree.ts), generateMaze / validateMaze           *)
(* (maze-generator.ts) and solveMaze (maze-solver.ts).                     *)
(*                                                                         *)
(* A CellId is a JavaScript string.  It is modelled as a sequence of       *)
(* one-character strings, so that template literals, split(','), Number,   *)
(* parseInt and the string comparison `a < b` are computed as the code     *)
(* computes them.  A JavaScript Set or Map is modelled as a sequence       *)
(* without repetition (insertion order is the iteration order); a          *)
(* Set<[CellId, CellId]> holds array references, never equal to each       *)
(* other, and is modelled as a plain sequence.                             *)
(***************************************************************************)
EXTENDS Integers, Sequences, FiniteSets, TLC

(***************************************************************************)
(* Bounds of the model.                                                    *)
(***************************************************************************)
\* random() returns one of the values k / RandRes, k in 0 .. RandRes-1
RandRes == 4
\* a random source returns any of these values on its first MaxDraws calls
\* and repeats its last value from then on
MaxDraws == 4
\* the largest number of passages of a hand-built maze
MaxHandPassages == 5
\* the largest number of passages of a maze with foreign identifiers
MaxForeignPassages == 2
\* the largest width and height a rectangular grid is constructed with
MaxSide == 4
\* the largest radius a hexagonal grid is constructed with
MaxRadius == 2
\* the largest width and height a wall-tracking grid is constructed with
MaxWallSide == 3

(***************************************************************************)
(* Strings.                                                                *)
(***************************************************************************)
\* The characters that occur in identifiers, in increasing UTF-16 code order.
Alphabet ==
  << ",", "-", "0", "1", "2", "3", "4", "5", "6", "7", "8", "9",
     "N", "a", "b", "c", "d", "e", "f", "i", "n", "o", "s", "t", "u", "x", "y" >>

CharCode(ch) == CHOOSE k \in DOMAIN Alphabet : Alphabet[k] = ch

DigitChars == << "0", "1", "2", "3", "4", "5", "6", "7", "8", "9" >>

IsDigit(ch) == \E k \in DOMAIN DigitChars : DigitChars[k] = ch

DigitValue(ch) == (CHOOSE k \in DOMAIN DigitChars : DigitChars[k] = ch) - 1

\* a < b on two strings: the first differing code unit decides, a proper
\* prefix is smaller.
RECURSIVE StrLess(_, _)
StrLess(a, b) ==
  IF b = << >> THEN FALSE
  ELSE IF a = << >> THEN TRUE
  ELSE IF Head(a) = Head(b) THEN StrLess(Tail(a), Tail(b))
  ELSE CharCode(Head(a)) < CharCode(Head(b))

RECURSIVE NatToStr(_)
NatToStr(n) ==
  IF n < 10 THEN << DigitChars[n + 1] >>
  ELSE NatToStr(n \div 10) \o << DigitChars[(n % 10) + 1] >>

\* `${n}` for an integer n
IntToStr(n) == IF n < 0 THEN << "-" >> \o NatToStr(-n) ELSE NatToStr(n)

\* A JavaScript value that is an integer, NaN or undefined.
NaN == [ok |-> FALSE, undef |-> FALSE, v |-> 0]
Undefined == [ok |-> FALSE, undef |-> TRUE, v |-> 0]
Num(n) == [ok |-> TRUE, undef |-> FALSE, v |-> n]

\* x + k, x < k, x > k and x === k for an integer k
NumPlus(x, k) == IF x.ok THEN Num(x.v + k) ELSE NaN
NumLt(x, k) == x.ok /\ x.v < k
NumGt(x, k) == x.ok /\ x.v > k
NumIs(x, k) == x.ok /\ x.v = k

\* `${x}` for such a value
NumToStr(x) ==
  IF x.ok THEN IntToStr(x.v)
  ELSE IF x.undef THEN << "u", "n", "d", "e", "f", "i", "n", "e", "d" >>
  ELSE << "N", "a", "N" >>

\* `${x},${y}`
CellStr(x, y) == NumToStr(x) \o << "," >> \o NumToStr(y)

\* s.split(',')
RECURSIVE SplitFrom(_, _)
SplitFrom(s, cur) ==
  IF s = << >> THEN << cur >>
  ELSE IF Head(s) = "," THEN << cur >> \o SplitFrom(Tail(s), << >>)
  ELSE SplitFrom(Tail(s), Append(cur, Head(s)))

Split(s) == SplitFrom(s, << >>)

RECURSIVE DigitsValue(_, _)
DigitsValue(s, acc) ==
  IF s = << >> THEN acc
  ELSE DigitsValue(Tail(s), 10 * acc + DigitValue(Head(s)))

AllDigits(s) == \A k \in DOMAIN s : IsDigit(s[k])

\* Number(s) on the identifiers of this model: the empty string is 0, an
\* optionally signed run of digits is its value, anything else is NaN.
\* (The identifiers never spell a hexadecimal, exponent or Infinity literal.)
NumberOf(s) ==
  IF s = << >> THEN Num(0)
  ELSE IF Head(s) \in {"-", "+"}
    THEN IF Len(s) > 1 /\ AllDigits(Tail(s))
           THEN Num(IF Head(s) = "-" THEN -DigitsValue(Tail(s), 0)
                                      ELSE DigitsValue(Tail(s), 0))
           ELSE NaN
  ELSE IF AllDigits(s) THEN Num(DigitsValue(s, 0))
  ELSE NaN

\* The longest prefix of s made of digits.
RECURSIVE DigitPrefix(_)
DigitPrefix(s) ==
  IF s = << >> \/ ~IsDigit(Head(s)) THEN << >>
  ELSE << Head(s) >> \o DigitPrefix(Tail(s))

\* parseInt(s, 10): an optional sign, then the leading digits; NaN without one.
ParseInt(s) ==
  LET neg == s # << >> /\ Head(s) = "-"
      body == IF s # << >> /\ Head(s) \in {"-", "+"} THEN Tail(s) ELSE s
      ds == DigitPrefix(body)
  IN IF ds = << >> THEN NaN
     ELSE Num(IF neg THEN -DigitsValue(ds, 0) ELSE DigitsValue(ds, 0))

(***************************************************************************)
(* Sequences used as insertion-ordered sets.                               *)
(***************************************************************************)
Range(s) == { s[k] : k \in DOMAIN s }

Includes(s, x) == \E k \in DOMAIN s : s[k] = x

\* Set.prototype.add
SetAdd(s, x) == IF Includes(s, x) THEN s ELSE Append(s, x)

(***************************************************************************)
(* Passages.                                                               *)
(***************************************************************************)
\* makePassage(a, b): the pair in sorted order
makePassage(a, b) == IF StrLess(a, b) THEN << a, b >> ELSE << b, a >>

(***************************************************************************)
(* RectangularGrid.  A grid value is [kind |-> "rect", width, height].     *)
(***************************************************************************)
RectGrid(w, h) == [kind |-> "rect", width |-> w, height |-> h]

\* a constructor that throws for a side that is not positive
RectConstructorThrowsNonPositive(w, h) == w < 1 \/ h < 1

\* the constructor throws below 2 x 2
RectConstructorThrows(w, h) == w < 2 \/ h < 2

\* cells(): rows y = 0 .. height-1, in each row x = 0 .. width-1
RectCells(g) ==
  [k \in 1 .. (g.width * g.height) |->
     CellStr(Num((k - 1) % g.width), Num((k - 1) \div g.width))]

\* const [x, y] = cell.split(',').map(Number)
RectParse(cell) ==
  LET parts == Split(cell)
  IN [x |-> NumberOf(parts[1]),
      y |-> IF Len(parts) >= 2 THEN NumberOf(parts[2]) ELSE Undefined]

\* neighbors without the cell to the left
RectNeighborsNoLeft(g, cell) ==
  LET p == RectParse(cell)
      x == p.x
      y == p.y
  IN (IF NumLt(x, g.width - 1) THEN << CellStr(NumPlus(x, 1), y) >> ELSE << >>)
     \o (IF NumGt(y, 0) THEN << CellStr(x, NumPlus(y, -1)) >> ELSE << >>)
     \o (IF NumLt(y, g.height - 1) THEN << CellStr(x, NumPlus(y, 1)) >> ELSE << >>)

RectNeighbors(g, cell) ==
  LET p == RectParse(cell)
      x == p.x
      y == p.y
  IN (IF NumGt(x, 0) THEN << CellStr(NumPlus(x, -1), y) >> ELSE << >>)
     \o (IF NumLt(x, g.width - 1) THEN << CellStr(NumPlus(x, 1), y) >> ELSE << >>)
     \o (IF NumGt(y, 0) THEN << CellStr(x, NumPlus(y, -1)) >> ELSE << >>)
     \o (IF NumLt(y, g.height - 1) THEN << CellStr(x, NumPlus(y, 1)) >> ELSE << >>)

RectEntranceCell(g) == CellStr(Num(0), Num(0))

RectExitCell(g) == CellStr(Num(g.width - 1), Num(g.height - 1))

RectBoundaryWalls(g, cell) ==
  LET p == RectParse(cell)
      x == p.x
      y == p.y
  IN (IF NumIs(x, 0)
        THEN << makePassage(CellStr(Num(-1), y), cell) >> ELSE << >>)
     \o (IF NumIs(x, g.width - 1)
           THEN << makePassage(cell, CellStr(Num(g.width), y)) >> ELSE << >>)
     \o (IF NumIs(y, 0)
           THEN << makePassage(CellStr(x, Num(-1)), cell) >> ELSE << >>)
     \o (IF NumIs(y, g.height - 1)
           THEN << makePassage(cell, CellStr(x, Num(g.height))) >> ELSE << >>)

(***************************************************************************)
(* HexagonalGrid.  A grid value is [kind |-> "hex", radius].               *)
(***************************************************************************)
HexGrid(r) == [kind |-> "hex", radius |-> r]

HexConstructorThrows(r) == r < 1

Max2(a, b) == IF a >= b THEN a ELSE b
Min2(a, b) == IF a <= b THEN a ELSE b
Abs(a) == IF a < 0 THEN -a ELSE a

\* a column whose lower end ignores q: r runs from -R to min(R, -q+R)
HexColumnFromMinusRadius(g, q) ==
  LET r1 == -g.radius
      r2 == Min2(g.radius, -q + g.radius)
  IN [k \in 1 .. (r2 - r1 + 1) |-> CellStr(Num(q), Num(r1 + k - 1))]

\* the column q of cells(): r runs from max(-R, -q-R) to min(R, -q+R)
HexColumn(g, q) ==
  LET r1 == Max2(-g.radius, -q - g.radius)
      r2 == Min2(g.radius, -q + g.radius)
  IN [k \in 1 .. (r2 - r1 + 1) |-> CellStr(Num(q), Num(r1 + k - 1))]

RECURSIVE HexCellsFrom(_, _)
HexCellsFrom(g, q) ==
  IF q > g.radius THEN << >> ELSE HexColumn(g, q) \o HexCellsFrom(g, q + 1)

HexCells(g) == HexCellsFrom(g, -g.radius)

\* parseAxialCoords: throws unless the id has two parts that parseInt reads
HexParseThrows(cell) ==
  LET parts == Split(cell)
  IN \/ Len(parts) # 2
     \/ ~ParseInt(parts[1]).ok
     \/ ~ParseInt(parts[2]).ok

parseAxialCoords(cell) ==
  LET parts == Split(cell)
  IN [q |-> ParseInt(parts[1]).v, r |-> ParseInt(parts[2]).v]

HexDistance(q, r) == Max2(Max2(Abs(q), Abs(r)), Abs(q + r))

isValidCell(g, cell) ==
  IF HexParseThrows(cell) THEN FALSE
  ELSE LET c == parseAxialCoords(cell) IN HexDistance(c.q, c.r) <= g.radius

isBoundaryCell(g, cell) ==
  IF HexParseThrows(cell) THEN FALSE
  ELSE LET c == parseAxialCoords(cell) IN HexDistance(c.q, c.r) = g.radius

neighborOffsets ==
  << << 1, 0 >>, << -1, 0 >>, << 0, 1 >>, << 0, -1 >>, << 1, -1 >>, << -1, 1 >> >>

\* neighbors(cell), for a cell parseAxialCoords accepts: the cells at the
\* six offsets, in their order, that isValidCell accepts
HexNeighbors(g, cell) ==
  LET c == parseAxialCoords(cell)
  IN SelectSeq([k \in DOMAIN neighborOffsets |->
                  CellStr(Num(c.q + neighborOffsets[k][1]),
                          Num(c.r + neighborOffsets[k][2]))],
               LAMBDA neighborCell : isValidCell(g, neighborCell))

HexEntranceCell(g) == CellStr(Num(-g.radius), Num(0))

HexExitCell(g) == CellStr(Num(g.radius), Num(0))

OutsidePrefix == << "o", "u", "t", "s", "i", "d", "e", "-" >>

HexBoundaryWalls(g, cell) ==
  IF ~isBoundaryCell(g, cell) THEN << >>
  ELSE LET c == parseAxialCoords(cell)
           outsideCell == OutsidePrefix \o CellStr(Num(c.q), Num(c.r))
       IN << makePassage(cell, outsideCell) >>

(***************************************************************************)
(* The Grid interface.  Besides the two providers a grid may be any other  *)
(* implementation of the interface, given by its tables:                   *)
(* [kind |-> "table", cellList, adj, entrance, exit, walls].               *)
(***************************************************************************)
Cells(g) ==
  CASE g.kind = "rect" -> RectCells(g)
    [] g.kind = "hex" -> HexCells(g)
    [] OTHER -> g.cellList

NeighborsThrows(g, cell) == g.kind = "hex" /\ HexParseThrows(cell)

Neighbors(g, cell) ==
  CASE g.kind = "rect" -> RectNeighbors(g, cell)
    [] g.kind = "hex" -> HexNeighbors(g, cell)
    [] OTHER -> IF cell \in DOMAIN g.adj THEN g.adj[cell] ELSE << >>

EntranceCell(g) ==
  CASE g.kind = "rect" -> RectEntranceCell(g)
    [] g.kind = "hex" -> HexEntranceCell(g)
    [] OTHER -> g.entrance

ExitCell(g) ==
  CASE g.kind = "rect" -> RectExitCell(g)
    [] g.kind = "hex" -> HexExitCell(g)
    [] OTHER -> g.exit

BoundaryWalls(g, cell) ==
  CASE g.kind = "rect" -> RectBoundaryWalls(g, cell)
    [] g.kind = "hex" -> HexBoundaryWalls(g, cell)
    [] OTHER -> IF cell \in DOMAIN g.walls THEN g.walls[cell] ELSE << >>

\* the concatenation of the sequences of ss, in their order (computed by
\* halves, which keeps the evaluation shallow)
RECURSIVE Flatten(_)
Flatten(ss) ==
  IF Len(ss) = 0 THEN << >>
  ELSE IF Len(ss) = 1 THEN ss[1]
  ELSE LET half == Len(ss) \div 2
       IN Flatten(SubSeq(ss, 1, half)) \o Flatten(SubSeq(ss, half + 1, Len(ss)))

\* new Set(array): the distinct elements in order of first occurrence
ToSet(s) ==
  LET firsts == SelectSeq([k \in DOMAIN s |-> k],
                          LAMBDA k : \A j \in 1 .. (k - 1) : s[j] # s[k])
  IN [n \in DOMAIN firsts |-> s[firsts[n]]]

\* a Set that holds acc, after the elements of s were added to it
ToSetFrom(s, acc) == ToSet(acc \o s)

(***************************************************************************)
(* spanning-tree.ts                                                        *)
(***************************************************************************)
Edge(a, b, fixed) == [from |-> a, to |-> b, isFixed |-> fixed]

\* random() * (i + 1) floored, for the value k / RandRes
ShuffleIndex(k, i) == (k * (i + 1)) \div RandRes

\* [result[i], result[j]] = [result[j], result[i]]
Swap(result, i, j) == [result EXCEPT ![i] = result[j], ![j] = result[i]]

\* The union-find maps: parent and rank, both keyed by node.
EmptyUF == [parent |-> << >>, rank |-> << >>]

\* find(x): creates the singleton of an unseen node, compresses the path
RECURSIVE find(_, _)
find(uf, x) ==
  LET uf1 == IF x \in DOMAIN uf.parent THEN uf
             ELSE [parent |-> (x :> x) @@ uf.parent, rank |-> (x :> 0) @@ uf.rank]
  IN IF uf1.parent[x] # x
       THEN LET up == find(uf1, uf1.parent[x])
            IN [uf |-> [up.uf EXCEPT !.parent[x] = up.root], root |-> up.root]
       ELSE [uf |-> uf1, root |-> x]

\* a union that finds both roots and never merges them
unionNeverMerges(uf, x, y) ==
  LET fx == find(uf, x)
      fy == find(fx.uf, y)
  IN [uf |-> fy.uf, merged |-> FALSE]

\* union without its test rootX === rootY: it reports a merge every time
unionNoRootCheck(uf, x, y) ==
  LET fx == find(uf, x)
      fy == find(fx.uf, y)
  IN IF fx.root = fy.root THEN [uf |-> fy.uf, merged |-> TRUE]
     ELSE [uf |-> [fy.uf EXCEPT !.parent[fy.root] = fx.root], merged |-> TRUE]

\* a union that hangs the node it was given, not its root, under the other
\* root
unionMovesNode(uf, x, y) ==
  LET fx == find(uf, x)
      fy == find(fx.uf, y)
      u == fy.uf
  IN IF fx.root = fy.root THEN [uf |-> u, merged |-> FALSE]
     ELSE IF u.rank[fx.root] < u.rank[fy.root]
       THEN [uf |-> [u EXCEPT !.parent[x] = fy.root], merged |-> TRUE]
     ELSE [uf |-> [u EXCEPT !.parent[y] = fx.root], merged |-> TRUE]

\* union(x, y): by rank; false when both are already in one set
union(uf, x, y) ==
  LET fx == find(uf, x)
      fy == find(fx.uf, y)
      rootX == fx.root
      rootY == fy.root
      u == fy.uf
      rankX == u.rank[rootX]
      rankY == u.rank[rootY]
  IN IF rootX = rootY THEN [uf |-> u, merged |-> FALSE]
     ELSE IF rankX < rankY
       THEN [uf |-> [u EXCEPT !.parent[rootX] = rootY], merged |-> TRUE]
     ELSE IF rankX > rankY
       THEN [uf |-> [u EXCEPT !.parent[rootY] = rootX], merged |-> TRUE]
     ELSE [uf |-> [u EXCEPT !.parent[rootY] = rootX, !.rank[rootX] = rankX + 1],
           merged |-> TRUE]

\* lines 29-30
fixedEdgesOf(edges) == SelectSeq(edges, LAMBDA e : e.isFixed)
removableEdgesOf(edges) == SelectSeq(edges, LAMBDA e : ~e.isFixed)

(***************************************************************************)
(* maze-generator.ts: generateMaze                                         *)
(***************************************************************************)
\* lines 22-32: one removable edge for each pair of neighbors, from the
\* smaller identifier to the larger
InternalEdgesOf(g, cell) ==
  LET ns == Neighbors(g, cell)
  IN Flatten([k \in DOMAIN ns |->
                IF StrLess(cell, ns[k]) THEN << Edge(cell, ns[k], FALSE) >>
                                        ELSE << >>])

\* the boundary walls of every cell, the entrance and the exit included
WallEdgesOfNoSkip(g, cell) ==
  LET bs == BoundaryWalls(g, cell)
  IN Flatten([k \in DOMAIN bs |-> << Edge(bs[k][1], bs[k][2], TRUE) >>])

\* lines 36-50: the boundary walls of every cell but the entrance and the
\* exit, as fixed edges
WallEdgesOf(g, cell) ==
  LET bs == BoundaryWalls(g, cell)
  IN Flatten([k \in DOMAIN bs |->
                IF cell = EntranceCell(g) \/ cell = ExitCell(g) THEN << >>
                ELSE << Edge(bs[k][1], bs[k][2], TRUE) >>])

BuildEdges(g) ==
  LET cells == ToSet(Cells(g))
  IN Flatten([k \in DOMAIN cells |-> InternalEdgesOf(g, cells[k])])
     \o Flatten([k \in DOMAIN cells |-> WallEdgesOf(g, cells[k])])

\* lines 53-58: the cells, then the endpoints of every edge
AllNodes(g, edges) ==
  ToSetFrom(Flatten([k \in DOMAIN edges |-> << edges[k].from, edges[k].to >>]),
            ToSet(Cells(g)))

\* the check of the entrance without the check of the exit
GenerateThrowsEntranceOnly(g) == ~Includes(ToSet(Cells(g)), EntranceCell(g))

\* lines 10-16
GenerateThrows(g) ==
  LET cells == ToSet(Cells(g))
  IN ~Includes(cells, EntranceCell(g)) \/ ~Includes(cells, ExitCell(g))

\* the tree edges with at least one end among the cells
PassagesOfEitherEnd(cells, treeEdges) ==
  Flatten([k \in DOMAIN treeEdges |->
             LET e == treeEdges[k]
             IN IF Includes(cells, e.from) \/ Includes(cells, e.to)
                  THEN << makePassage(e.from, e.to) >> ELSE << >>])

\* lines 72-81: the tree edges between two cells
PassagesOf(cells, treeEdges) ==
  Flatten([k \in DOMAIN treeEdges |->
             LET e == treeEdges[k]
             IN IF Includes(cells, e.from) /\ Includes(cells, e.to)
                  THEN << makePassage(e.from, e.to) >> ELSE << >>])

\* lines 72-81: the tree edges with exactly one endpoint among the cells
WallsOf(cells, treeEdges) ==
  Flatten([k \in DOMAIN treeEdges |->
             LET e == treeEdges[k]
             IN IF Includes(cells, e.from) /\ Includes(cells, e.to) THEN << >>
                ELSE IF Includes(cells, e.from) \/ Includes(cells, e.to)
                  THEN << makePassage(e.from, e.to) >> ELSE << >>])

\* lines 68-89
MakeMaze(g, treeEdges) ==
  LET cells == ToSet(Cells(g))
  IN [cells |-> cells,
      passages |-> PassagesOf(cells, treeEdges),
      boundaryWalls |-> WallsOf(cells, treeEdges),
      entrance |-> EntranceCell(g),
      exit |-> ExitCell(g)]

(***************************************************************************)
(* The adjacency map that solveMaze and validateMaze build: an empty set   *)
(* for every cell, then both directions of every passage whose two ends    *)
(* are cells.                                                              *)
(***************************************************************************)
EmptyAdj(cells) == [c \in Range(cells) |-> << >>]

RECURSIVE AddPassages(_, _, _)
AddPassages(adj, cells, ps) ==
  IF ps = << >> THEN adj
  ELSE LET cellA == Head(ps)[1]
           cellB == Head(ps)[2]
       IN IF Includes(cells, cellA) /\ Includes(cells, cellB)
            THEN LET adj1 == [adj EXCEPT ![cellA] = SetAdd(@, cellB)]
                 IN AddPassages([adj1 EXCEPT ![cellB] = SetAdd(@, cellA)],
                                cells, Tail(ps))
            ELSE AddPassages(adj, cells, Tail(ps))

\* only the direction cellA -> cellB of every passage
RECURSIVE AddPassagesOneWay(_, _, _)
AddPassagesOneWay(adj, cells, ps) ==
  IF ps = << >> THEN adj
  ELSE LET cellA == Head(ps)[1]
           cellB == Head(ps)[2]
       IN IF Includes(cells, cellA) /\ Includes(cells, cellB)
            THEN AddPassagesOneWay([adj EXCEPT ![cellA] = SetAdd(@, cellB)],
                                   cells, Tail(ps))
            ELSE AddPassagesOneWay(adj, cells, Tail(ps))

\* every passage is entered, whatever its ends are
RECURSIVE AddPassagesAnyEnd(_, _)
AddPassagesAnyEnd(adj, ps) ==
  IF ps = << >> THEN adj
  ELSE LET cellA == Head(ps)[1]
           cellB == Head(ps)[2]
       IN AddPassagesAnyEnd([adj EXCEPT ![cellA] = SetAdd(@, cellB),
                                        ![cellB] = SetAdd(@, cellA)],
                            Tail(ps))

AdjacencyAnyEnd(maze) ==
  AddPassagesAnyEnd(
    [c \in Range(maze.cells) \cup UNION { {p[1], p[2]} : p \in Range(maze.passages) }
       |-> << >>],
    maze.passages)

AdjacencyOneWay(maze) ==
  AddPassagesOneWay(EmptyAdj(maze.cells), maze.cells, maze.passages)

Adjacency(maze) == AddPassages(EmptyAdj(maze.cells), maze.cells, maze.passages)

\* adj.get(current) || []
AdjGet(adj, current) == IF current \in DOMAIN adj THEN adj[current] ELSE << >>

(***************************************************************************)
(* maze-solver.ts: solveMaze                                               *)
(***************************************************************************)
\* lines 43-48: the unseen neighbors get current as parent and are queued
RECURSIVE Explore(_, _, _)
Explore(st, current, ns) ==
  IF ns = << >> THEN st
  ELSE IF Head(ns) \in DOMAIN st.parent THEN Explore(st, current, Tail(ns))
  ELSE Explore([queue |-> Append(st.queue, Head(ns)),
                parent |-> (Head(ns) :> current) @@ st.parent],
               current, Tail(ns))

\* a path that stops before the entrance
RECURSIVE ReconstructWithoutEntrance(_, _, _, _)
ReconstructWithoutEntrance(parent, entrance, node, path) ==
  IF node = entrance THEN path
  ELSE ReconstructWithoutEntrance(parent, entrance, parent[node], << node >> \o path)

\* lines 29-38: the path from the exit back to the entrance, reversed
RECURSIVE Reconstruct(_, _, _, _)
Reconstruct(parent, entrance, node, path) ==
  IF node = entrance THEN << entrance >> \o path
  ELSE Reconstruct(parent, entrance, parent[node], << node >> \o path)

\* lines 25-49: the loop; dequeued counts its iterations
RECURSIVE SolveLoop(_, _, _, _)
SolveLoop(maze, adj, st, dequeued) ==
  IF st.queue = << >>
    THEN [found |-> FALSE, path |-> << >>, dequeued |-> dequeued]
  ELSE LET current == Head(st.queue)
           rest == [st EXCEPT !.queue = Tail(st.queue)]
       IN IF current = maze.exit
            THEN [found |-> TRUE,
                  path |-> Reconstruct(st.parent, maze.entrance, maze.exit, << >>),
                  dequeued |-> dequeued + 1]
            ELSE SolveLoop(maze, adj, Explore(rest, current, AdjGet(adj, current)),
                           dequeued + 1)

solveMaze(maze) ==
  SolveLoop(maze, Adjacency(maze),
            [queue |-> << maze.entrance >>,
             parent |-> (maze.entrance :> maze.entrance)],
            0)

(***************************************************************************)
(* maze-generator.ts: validateMaze                                         *)
(***************************************************************************)
ErrEntrance == "Entrance not in maze cells"
ErrExit == "Exit not in maze cells"
ErrNonNeighbors == "Invalid passage between non-neighbors"
ErrNotAllReachable == "Not all cells reachable"
ErrExitUnreachable == "Exit not reachable from entrance"

\* lines 106-116: the passages between two cells that are not neighbors
NonNeighborErrors(maze, g) ==
  Flatten([k \in DOMAIN maze.passages |->
             LET cellA == maze.passages[k][1]
                 cellB == maze.passages[k][2]
             IN IF ~Includes(maze.cells, cellA) \/ ~Includes(maze.cells, cellB)
                  THEN << >>
                ELSE IF ~Includes(Neighbors(g, cellA), cellB)
                  THEN << ErrNonNeighbors >> ELSE << >>])

\* line 112 throws when the grid cannot parse the first cell of a passage
ValidateThrows(maze, g) ==
  \E k \in DOMAIN maze.passages :
    /\ Includes(maze.cells, maze.passages[k][1])
    /\ Includes(maze.cells, maze.passages[k][2])
    /\ NeighborsThrows(g, maze.passages[k][1])

\* lines 142-146
RECURSIVE PushUnvisited(_, _, _)
PushUnvisited(queue, visited, ns) ==
  IF ns = << >> THEN queue
  ELSE PushUnvisited(IF Includes(visited, Head(ns)) THEN queue
                                                    ELSE Append(queue, Head(ns)),
                     visited, Tail(ns))

\* lines 136-147
RECURSIVE VisitLoop(_, _, _)
VisitLoop(adj, queue, visited) ==
  IF queue = << >> THEN visited
  ELSE LET current == Head(queue)
       IN IF Includes(visited, current) THEN VisitLoop(adj, Tail(queue), visited)
          ELSE LET visited1 == Append(visited, current)
               IN VisitLoop(adj,
                            PushUnvisited(Tail(queue), visited1, AdjGet(adj, current)),
                            visited1)

Visited(maze) == VisitLoop(Adjacency(maze), << maze.entrance >>, << >>)

\* the list validateMaze returns when it does not throw
validateMaze(maze, g) ==
  LET visited == Visited(maze)
  IN (IF ~Includes(maze.cells, maze.entrance) THEN << ErrEntrance >> ELSE << >>)
     \o (IF ~Includes(maze.cells, maze.exit) THEN << ErrExit >> ELSE << >>)
     \o NonNeighborErrors(maze, g)
     \o (IF Len(visited) # Len(maze.cells) THEN << ErrNotAllReachable >> ELSE << >>)
     \o (IF ~Includes(visited, maze.exit) THEN << ErrExitUnreachable >> ELSE << >>)

(***************************************************************************)
(* The inputs.                                                             *)
(***************************************************************************)
\* the grids of the two providers that are generated
ProviderGrids == {RectGrid(2, 2), RectGrid(3, 2), RectGrid(2, 3), HexGrid(1)}

\* Other implementations of the Grid interface: four cells a, b, c, d on a
\* path or on a ring, entrance a, exit d; a has a boundary wall to the
\* exterior identifier x; b and c have no boundary wall or one to x or to y.
IdA == << "a" >>
IdB == << "b" >>
IdC == << "c" >>
IdD == << "d" >>
IdX == << "x" >>
IdY == << "y" >>

PathAdj == (IdA :> << IdB >>) @@ (IdB :> << IdA, IdC >>)
           @@ (IdC :> << IdB, IdD >>) @@ (IdD :> << IdC >>)

RingAdj == (IdA :> << IdB, IdD >>) @@ (IdB :> << IdA, IdC >>)
           @@ (IdC :> << IdB, IdD >>) @@ (IdD :> << IdC, IdA >>)

WallChoices(cell) ==
  {<< >>, << makePassage(cell, IdX) >>, << makePassage(cell, IdY) >>}

TableGrids ==
  { [kind |-> "table",
     cellList |-> << IdA, IdB, IdC, IdD >>,
     adj |-> adj,
     entrance |-> IdA,
     exit |-> IdD,
     walls |-> (IdA :> << makePassage(IdA, IdX) >>) @@ (IdB :> wb)
               @@ (IdC :> wc) @@ (IdD :> << >>)] :
      adj \in {PathAdj, RingAdj}, wb \in WallChoices(IdB), wc \in WallChoices(IdC) }

Grids == ProviderGrids \cup TableGrids

(***************************************************************************)
(* The state: the grid, and for each call of generateMaze its position,    *)
(* its local variables and, once it has returned, the maze with what       *)
(* solveMaze and validateMaze have answered for it.                        *)
(***************************************************************************)
VARIABLES grid, call

vars == << grid, call >>

CallIds == {1, 2}

NoMaze == [cells |-> << >>, passages |-> << >>, boundaryWalls |-> << >>,
           entrance |-> << >>, exit |-> << >>]

NoGraph == [nodes |-> << >>, edges |-> << >>]

NoQuery == [op |-> "none", args |-> << >>, threw |-> FALSE, value |-> << >>]

NoDfs == [visited |-> << >>, stack |-> << >>, currentCell |-> << >>,
          negative |-> FALSE]

NoSolution == [found |-> FALSE, path |-> << >>, dequeued |-> 0]

IdleCall ==
  [pc |-> "idle",
   fixedEdges |-> << >>,     \* spanningTree: the edges with isFixed
   shuffled |-> << >>,       \* shuffle: result
   i |-> 0,                  \* shuffle: the loop index, counted from 1
   nf |-> 0,                 \* fixed edges processed
   nr |-> 0,                 \* shuffled edges processed
   uf |-> EmptyUF,           \* spanningTree: parent and rank
   result |-> << >>,         \* spanningTree: result
   draws |-> << >>,          \* the values the random source has returned
   source |-> << >>,         \* the values a scripted random source returns
   graph |-> NoGraph,        \* spanningTree: the graph it was called with
   query |-> NoQuery,        \* the last call of a grid's constructor or method
   dfs |-> NoDfs,            \* generateWithDFS: visited, stack, currentCell, rng
   maze |-> NoMaze,
   solved |-> FALSE, solution |-> NoSolution,
   validated |-> FALSE, validateThrew |-> FALSE, errors |-> << >>]

\* The values the random source of call c may return next: any value while
\* it has returned fewer than MaxDraws values, its last value afterwards; the
\* source of the second call returns the sequence the first one returned.
\* A scripted source returns the values of its script, one after the other.
RandomValues(c) ==
  LET mine == call[c].draws
      free == IF Len(mine) < MaxDraws THEN 0 .. (RandRes - 1)
              ELSE {mine[Len(mine)]}
      script == call[c].source
  IN IF script # << >> THEN {script[Min2(Len(mine) + 1, Len(script))]}
     ELSE IF c = 2 THEN {call[1].draws[Len(mine) + 1]} ELSE free

(***************************************************************************)
(* generateMaze, step by step.                                             *)
(***************************************************************************)
\* maze-generator.ts lines 6-63 and spanning-tree.ts lines 26-33: the checks,
\* the graph, the split into fixed and removable edges, the copy to shuffle
Begin(c) ==
  /\ call[c].pc = "idle"
  /\ IF GenerateThrows(grid)
       THEN call' = [call EXCEPT ![c].pc = "threw"]
       ELSE LET edges == BuildEdges(grid)
                empty == AllNodes(grid, edges) = << >>
                removable == IF empty THEN << >> ELSE removableEdgesOf(edges)
            IN call' = [call EXCEPT
                          ![c].pc = "running",
                          ![c].fixedEdges = IF empty THEN << >>
                                                     ELSE fixedEdgesOf(edges),
                          ![c].shuffled = removable,
                          ![c].i = Len(removable)]
  /\ UNCHANGED grid

\* a call made when the call before it has returned
Start(c) ==
  /\ c = 2 => call[1].pc = "done"
  /\ Begin(c)

\* a shuffle whose index also depends on how many calls came before, as
\* with a counter kept between the calls
ShuffleStepCallCounter(c) ==
  /\ call[c].pc = "running"
  /\ call[c].i > 1
  /\ \E k \in RandomValues(c) :
       LET i == call[c].i - 1
           j == (ShuffleIndex(k, i) + c - 1) % (i + 1)
       IN call' = [call EXCEPT
                     ![c].shuffled = Swap(@, i + 1, j + 1),
                     ![c].i = @ - 1,
                     ![c].draws = Append(@, k)]
  /\ UNCHANGED grid

\* spanning-tree.ts lines 17-20: one iteration of the Fisher-Yates loop
ShuffleStep(c) ==
  /\ call[c].pc = "running"
  /\ call[c].i > 1
  /\ \E k \in RandomValues(c) :
       LET i == call[c].i - 1
           j == ShuffleIndex(k, i)
       IN call' = [call EXCEPT
                     ![c].shuffled = Swap(@, i + 1, j + 1),
                     ![c].i = @ - 1,
                     ![c].draws = Append(@, k)]
  /\ UNCHANGED grid

\* a fixed edge that is pushed only when union merged two sets
FixedStepIfMerged(c) ==
  /\ call[c].pc = "running"
  /\ call[c].i <= 1
  /\ call[c].nf < Len(call[c].fixedEdges)
  /\ LET edge == call[c].fixedEdges[call[c].nf + 1]
         r == union(call[c].uf, edge.from, edge.to)
     IN call' = [call EXCEPT
                   ![c].uf = r.uf,
                   ![c].result = IF r.merged THEN Append(@, edge) ELSE @,
                   ![c].nf = @ + 1]
  /\ UNCHANGED grid

\* spanning-tree.ts lines 77-80: one fixed edge
FixedStep(c) ==
  /\ call[c].pc = "running"
  /\ call[c].i <= 1
  /\ call[c].nf < Len(call[c].fixedEdges)
  /\ LET edge == call[c].fixedEdges[call[c].nf + 1]
         r == union(call[c].uf, edge.from, edge.to)
     IN call' = [call EXCEPT
                   ![c].uf = r.uf,
                   ![c].result = Append(@, edge),
                   ![c].nf = @ + 1]
  /\ UNCHANGED grid

\* a removable edge tested against one union-find kept between the calls
RemovableStepSharedMaps(c) ==
  /\ call[c].pc = "running"
  /\ call[c].i <= 1
  /\ call[c].nf = Len(call[c].fixedEdges)
  /\ call[c].nr < Len(call[c].shuffled)
  /\ LET edge == call[c].shuffled[call[c].nr + 1]
         r == union(call[1].uf, edge.from, edge.to)
     IN call' = [call EXCEPT
                   ![1].uf = r.uf,
                   ![c].result = IF r.merged THEN Append(@, edge) ELSE @,
                   ![c].nr = @ + 1]
  /\ UNCHANGED grid

\* spanning-tree.ts lines 83-87: one shuffled removable edge
RemovableStep(c) ==
  /\ call[c].pc = "running"
  /\ call[c].i <= 1
  /\ call[c].nf = Len(call[c].fixedEdges)
  /\ call[c].nr < Len(call[c].shuffled)
  /\ LET edge == call[c].shuffled[call[c].nr + 1]
         r == union(call[c].uf, edge.from, edge.to)
     IN call' = [call EXCEPT
                   ![c].uf = r.uf,
                   ![c].result = IF r.merged THEN Append(@, edge) ELSE @,
                   ![c].nr = @ + 1]
  /\ UNCHANGED grid

\* spanning-tree.ts line 89 and maze-generator.ts lines 68-89: the tree is
\* split into passages and boundary walls and the maze is returned; the
\* locals of the call are gone
Return(c) ==
  /\ call[c].pc = "running"
  /\ call[c].i <= 1
  /\ call[c].nf = Len(call[c].fixedEdges)
  /\ call[c].nr = Len(call[c].shuffled)
  /\ call' = [call EXCEPT
                ![c] = [IdleCall EXCEPT
                          !.pc = "done",
                          !.draws = call[c].draws,
                          !.maze = MakeMaze(grid, call[c].result)]]
  /\ UNCHANGED grid

(***************************************************************************)
(* solveMaze and validateMaze on the maze of a call.                       *)
(***************************************************************************)
\* a maze exists: returned by the call, or built by hand
HasMaze(c) == call[c].pc \in {"done", "building", "built"}

\* a maze handed to solveMaze or validateMaze is not built on any further
Handed(pc) == IF pc = "building" THEN "built" ELSE pc

Solve(c) ==
  /\ HasMaze(c)
  /\ ~call[c].solved
  /\ call' = [call EXCEPT ![c].pc = Handed(@),
                          ![c].solved = TRUE,
                          ![c].solution = solveMaze(call[c].maze)]
  /\ UNCHANGED grid

Validate(c) ==
  /\ HasMaze(c)
  /\ ~call[c].validated
  /\ call' = [call EXCEPT
                ![c].pc = Handed(@),
                ![c].validated = TRUE,
                ![c].validateThrew = ValidateThrows(call[c].maze, grid),
                ![c].errors = IF ValidateThrows(call[c].maze, grid) THEN << >>
                              ELSE validateMaze(call[c].maze, grid)]
  /\ UNCHANGED grid

(***************************************************************************)
(* Spec: one call of generateMaze on a grid, then solveMaze and            *)
(* validateMaze on the maze it returned.                                   *)
(***************************************************************************)
Init ==
  /\ grid \in Grids
  /\ call = [c \in CallIds |-> IdleCall]

Next ==
  \/ Start(1)
  \/ ShuffleStep(1)
  \/ FixedStep(1)
  \/ RemovableStep(1)
  \/ Return(1)
  \/ Solve(1)
  \/ Validate(1)

Spec == Init /\ [][Next]_vars

(***************************************************************************)
(* SpecFive: as Spec, on the rectangular grid of 5 x 5 cells, with the     *)
(* random sources of Spec and with a scripted one, a function that returns *)
(* the quarters below one after the other.                                 *)
(***************************************************************************)
ScriptedSource ==
  << 3, 0, 1, 2, 3, 2, 3, 2, 0, 3, 0, 0, 0, 3, 0, 3, 3, 2, 1, 1,
     0, 3, 1, 0, 3, 2, 1, 0, 0, 2, 3, 3, 3, 0, 0, 2, 1, 1, 0 >>

InitFive ==
  /\ grid = RectGrid(5, 5)
  /\ \E script \in {<< >>, ScriptedSource} :
       call = [c \in CallIds |-> [IdleCall EXCEPT !.source = script]]

SpecFive == InitFive /\ [][Next]_vars

(***************************************************************************)
(* SpecLoose: as Spec, for the grids of Spec and for implementations of    *)
(* the Grid interface that break its contract: an entrance or an exit      *)
(* that is not a cell, or a boundary wall that touches no cell.            *)
(***************************************************************************)
PlainGrid ==
  [kind |-> "table",
   cellList |-> << IdA, IdB, IdC, IdD >>,
   adj |-> PathAdj,
   entrance |-> IdA,
   exit |-> IdD,
   walls |-> (IdA :> << >>) @@ (IdB :> << makePassage(IdB, IdX) >>)
             @@ (IdC :> << >>) @@ (IdD :> << >>)]

\* entranceCell() or exitCell() answers an identifier that cells() lacks
BadGrids ==
  { [PlainGrid EXCEPT !.entrance = IdX],
    [PlainGrid EXCEPT !.exit = IdX],
    [PlainGrid EXCEPT !.entrance = IdX, !.exit = IdY] }

\* boundaryWalls(c) answers an edge between two exterior identifiers
StrayGrids ==
  { [PlainGrid EXCEPT !.adj = adj, !.walls[IdC] = << makePassage(IdX, IdY) >>] :
      adj \in {PathAdj, RingAdj} }

InitLoose ==
  /\ grid \in Grids \cup BadGrids \cup StrayGrids
  /\ call = [c \in CallIds |-> IdleCall]

SpecLoose == InitLoose /\ [][Next]_vars

(***************************************************************************)
(* SpecPair: two calls of generateMaze on the same grid, one after the     *)
(* other (the code is synchronous), whose random sources return the same   *)
(* sequence of values.                                                     *)
(***************************************************************************)
NextPair ==
  \E c \in CallIds :
    \/ Start(c)
    \/ ShuffleStep(c)
    \/ FixedStep(c)
    \/ RemovableStep(c)
    \/ Return(c)

SpecPair == Init /\ [][NextPair]_vars

(***************************************************************************)
(* SpecConcurrent: two calls of generateMaze on the same grid whose steps  *)
(* interleave in any order, as two threads would run them.  The first call *)
(* has a random source of Spec; the second has its own source, which       *)
(* returns one value again and again.                                      *)
(***************************************************************************)
InitConcurrent ==
  /\ grid = RectGrid(2, 2)
  /\ \E k \in 0 .. (RandRes - 1) :
       call = [c \in CallIds |->
                 IF c = 1 THEN IdleCall ELSE [IdleCall EXCEPT !.source = << k >>]]

NextConcurrent ==
  \E c \in CallIds :
    \/ Begin(c)
    \/ ShuffleStep(c)
    \/ FixedStep(c)
    \/ RemovableStep(c)
    \/ Return(c)

SpecConcurrent == InitConcurrent /\ [][NextConcurrent]_vars

(***************************************************************************)
(* SpecHand: a maze built by hand over the cells of a 2 x 2 rectangular    *)
(* grid, as the tests build one, then handed to solveMaze and              *)
(* validateMaze.  Its passages are pairs of the cells and of one exterior  *)
(* identifier, listed in the order of HandPairs; its entrance and exit     *)
(* are those of the grid, or the same cell, or the exterior identifier.    *)
(***************************************************************************)
HandGrid == RectGrid(2, 2)

\* a boundary wall of a cell that is neither the entrance nor the exit
HandWall == BoundaryWalls(HandGrid, Cells(HandGrid)[2])[1]

\* its exterior end
HandExterior ==
  IF HandWall[1] = Cells(HandGrid)[2] THEN HandWall[2] ELSE HandWall[1]

HandIds == Cells(HandGrid) \o << HandExterior >>

\* every pair of distinct identifiers, sorted as makePassage sorts it
HandPairs ==
  Flatten([a \in DOMAIN HandIds |->
             Flatten([b \in DOMAIN HandIds |->
                        IF a < b THEN << makePassage(HandIds[a], HandIds[b]) >>
                                 ELSE << >>])])

HandEndpoints ==
  { << EntranceCell(HandGrid), ExitCell(HandGrid) >>,
    << EntranceCell(HandGrid), EntranceCell(HandGrid) >>,
    << EntranceCell(HandGrid), HandExterior >>,
    << HandExterior, ExitCell(HandGrid) >> }

PairIndex(p) == CHOOSE k \in DOMAIN HandPairs : HandPairs[k] = p

InitHand ==
  /\ grid = HandGrid
  /\ \E ends \in HandEndpoints :
       call = [c \in CallIds |->
                 IF c = 1
                   THEN [IdleCall EXCEPT
                           !.pc = "building",
                           !.maze = [cells |-> ToSet(Cells(HandGrid)),
                                     passages |-> << >>,
                                     boundaryWalls |-> << >>,
                                     entrance |-> ends[1],
                                     exit |-> ends[2]]]
                   ELSE IdleCall]

\* one more passage is put into the maze
AddPassage(c) ==
  /\ call[c].pc = "building"
  /\ Len(call[c].maze.passages) < MaxHandPassages
  /\ \E k \in DOMAIN HandPairs :
       /\ \A n \in DOMAIN call[c].maze.passages :
            PairIndex(call[c].maze.passages[n]) < k
       /\ call' = [call EXCEPT ![c].maze.passages = Append(@, HandPairs[k])]
  /\ UNCHANGED grid

NextHand ==
  \/ AddPassage(1)
  \/ Solve(1)
  \/ Validate(1)

SpecHand == InitHand /\ [][NextHand]_vars

(***************************************************************************)
(* SpecTree: spanningTree called on its own, as its tests call it, with a  *)
(* graph over the nodes a, b, c, d.  Each of five edges is absent,         *)
(* removable or fixed; graph.nodes is empty, holds a alone, or holds the   *)
(* four nodes.  No grid is involved.                                       *)
(***************************************************************************)
NoGrid == [kind |-> "none"]

CandidateEdges ==
  << << IdA, IdB >>, << IdB, IdC >>, << IdC, IdD >>, << IdA, IdD >>, << IdA, IdC >> >>

EdgeKinds == {"absent", "removable", "fixed"}

GraphOf(kinds, nodes) ==
  [nodes |-> nodes,
   edges |-> Flatten([k \in DOMAIN CandidateEdges |->
                        IF kinds[k] = "absent" THEN << >>
                        ELSE << Edge(CandidateEdges[k][1], CandidateEdges[k][2],
                                     kinds[k] = "fixed") >>])]

GraphInputs ==
  { GraphOf(kinds, nodes) :
      kinds \in [DOMAIN CandidateEdges -> EdgeKinds],
      nodes \in {<< >>, << IdA >>, << IdA, IdB, IdC, IdD >>} }

InitTree ==
  /\ grid = NoGrid
  /\ \E g \in GraphInputs :
       call = [c \in CallIds |->
                 IF c = 1 THEN [IdleCall EXCEPT !.pc = "called", !.graph = g]
                          ELSE IdleCall]

\* a spanningTree that shuffles only the removable edges between nodes of
\* graph.nodes
TreeStartKnownNodes(c) ==
  /\ call[c].pc = "called"
  /\ LET g == call[c].graph
         known == SelectSeq(removableEdgesOf(g.edges),
                            LAMBDA e : Includes(g.nodes, e.from)
                                         /\ Includes(g.nodes, e.to))
     IN IF Len(g.nodes) = 0
          THEN call' = [call EXCEPT ![c].pc = "returned"]
          ELSE call' = [call EXCEPT
                          ![c].pc = "running",
                          ![c].fixedEdges = fixedEdgesOf(g.edges),
                          ![c].shuffled = known,
                          ![c].i = Len(known)]
  /\ UNCHANGED grid

\* spanning-tree.ts lines 26-33: the empty graph returns at once; otherwise
\* the edges are split and the removable ones are copied to be shuffled
TreeStart(c) ==
  /\ call[c].pc = "called"
  /\ LET g == call[c].graph
     IN IF Len(g.nodes) = 0
          THEN call' = [call EXCEPT ![c].pc = "returned"]
          ELSE call' = [call EXCEPT
                          ![c].pc = "running",
                          ![c].fixedEdges = fixedEdgesOf(g.edges),
                          ![c].shuffled = removableEdgesOf(g.edges),
                          ![c].i = Len(removableEdgesOf(g.edges))]
  /\ UNCHANGED grid

\* spanning-tree.ts line 89: result is returned to the caller
TreeReturn(c) ==
  /\ call[c].pc = "running"
  /\ call[c].i <= 1
  /\ call[c].nf = Len(call[c].fixedEdges)
  /\ call[c].nr = Len(call[c].shuffled)
  /\ call' = [call EXCEPT
                ![c] = [IdleCall EXCEPT
                          !.pc = "returned",
                          !.graph = call[c].graph,
                          !.draws = call[c].draws,
                          !.result = call[c].result]]
  /\ UNCHANGED grid

NextTree ==
  \/ TreeStart(1)
  \/ ShuffleStep(1)
  \/ FixedStep(1)
  \/ RemovableStep(1)
  \/ TreeReturn(1)

SpecTree == InitTree /\ [][NextTree]_vars

(***************************************************************************)
(* SpecForeign: a maze built by hand for a grid of either provider whose   *)
(* cells are those of the grid and, possibly, identifiers the grid never   *)
(* produced; its passages are pairs of these, sorted as makePassage sorts  *)
(* them.  The maze is handed to validateMaze.                              *)
(***************************************************************************)
\* "0,0,0" has three parts; "9,9" reads as a position outside the grids
ForeignIds == << << "0", ",", "0", ",", "0" >>, << "9", ",", "9" >> >>

ForeignGrids == {RectGrid(2, 2), HexGrid(1)}

\* every pair of distinct identifiers of ids, sorted as makePassage sorts it
PairsOver(ids) ==
  Flatten([a \in DOMAIN ids |->
             Flatten([b \in DOMAIN ids |->
                        IF a < b THEN << makePassage(ids[a], ids[b]) >>
                                 ELSE << >>])])

InitForeign ==
  /\ grid \in ForeignGrids
  /\ \E extra \in SUBSET Range(ForeignIds) :
       call = [c \in CallIds |->
                 IF c = 1
                   THEN [IdleCall EXCEPT
                           !.pc = "building",
                           !.maze = [cells |-> ToSet(Cells(grid))
                                                 \o SelectSeq(ForeignIds,
                                                              LAMBDA f : f \in extra),
                                     passages |-> << >>,
                                     boundaryWalls |-> << >>,
                                     entrance |-> EntranceCell(grid),
                                     exit |-> ExitCell(grid)]]
                   ELSE IdleCall]

\* one more passage between two cells of the maze is put into it
AddForeignPassage(c) ==
  /\ call[c].pc = "building"
  /\ Len(call[c].maze.passages) < MaxForeignPassages
  /\ LET pairs == PairsOver(call[c].maze.cells)
         ps == call[c].maze.passages
         last == IF ps = << >> THEN 0
                 ELSE CHOOSE k \in DOMAIN pairs : pairs[k] = ps[Len(ps)]
     IN \E k \in (last + 1) .. Len(pairs) :
          call' = [call EXCEPT ![c].maze.passages = Append(@, pairs[k])]
  /\ UNCHANGED grid

NextForeign ==
  \/ AddForeignPassage(1)
  \/ Validate(1)

SpecForeign == InitForeign /\ [][NextForeign]_vars

(***************************************************************************)
(* SpecGrid: a grid of either provider is constructed with a width and a   *)
(* height, or a radius, that may be invalid; the methods of a constructed  *)
(* grid are then called with its cells and with foreign identifiers.       *)
(***************************************************************************)
DimValues == (-1) .. MaxSide

RadiusValues == (-1) .. MaxRadius

InitGrid ==
  /\ grid = NoGrid
  /\ call = [c \in CallIds |-> IdleCall]

Asked(op, args, threw, value) ==
  [op |-> op, args |-> args, threw |-> threw, value |-> value]

\* new RectangularGrid(w, h)
NewRectangularGrid(c) ==
  /\ call[c].pc = "idle"
  /\ grid = NoGrid
  /\ \E w \in DimValues, h \in DimValues :
       LET threw == RectConstructorThrows(w, h)
       IN /\ call' = [call EXCEPT
                        ![c].pc = IF threw THEN "threw" ELSE "constructed",
                        ![c].query = Asked("new RectangularGrid", << w, h >>,
                                           threw, << >>)]
          /\ grid' = IF threw THEN grid ELSE RectGrid(w, h)

\* new HexagonalGrid(r)
NewHexagonalGrid(c) ==
  /\ call[c].pc = "idle"
  /\ grid = NoGrid
  /\ \E r \in RadiusValues :
       LET threw == HexConstructorThrows(r)
       IN /\ call' = [call EXCEPT
                        ![c].pc = IF threw THEN "threw" ELSE "constructed",
                        ![c].query = Asked("new HexagonalGrid", << r >>,
                                           threw, << >>)]
          /\ grid' = IF threw THEN grid ELSE HexGrid(r)

\* the identifiers a method is called with
QueryCells(g) == Range(Cells(g)) \cup Range(ForeignIds)

\* grid.neighbors(cell)
AskNeighbors(c) ==
  /\ call[c].pc = "constructed"
  /\ \E cell \in QueryCells(grid) :
       LET threw == NeighborsThrows(grid, cell)
       IN call' = [call EXCEPT
                     ![c].query = Asked("neighbors", << cell >>, threw,
                                        IF threw THEN << >>
                                                 ELSE Neighbors(grid, cell))]
  /\ UNCHANGED grid

\* grid.boundaryWalls(cell)
AskBoundaryWalls(c) ==
  /\ call[c].pc = "constructed"
  /\ \E cell \in QueryCells(grid) :
       call' = [call EXCEPT
                  ![c].query = Asked("boundaryWalls", << cell >>, FALSE,
                                     BoundaryWalls(grid, cell))]
  /\ UNCHANGED grid

\* grid.cells()
AskCells(c) ==
  /\ call[c].pc = "constructed"
  /\ call' = [call EXCEPT
                ![c].query = Asked("cells", << >>, FALSE, Cells(grid))]
  /\ UNCHANGED grid

NextGrid ==
  \/ NewRectangularGrid(1)
  \/ NewHexagonalGrid(1)
  \/ AskNeighbors(1)
  \/ AskBoundaryWalls(1)
  \/ AskCells(1)

SpecGrid == InitGrid /\ [][NextGrid]_vars

(***************************************************************************)
(* The wall-tracking RectangularGrid, coordinates.ts, MazeGenerator and    *)
(* MazeValidator.  A grid value is [kind |-> "walls", width, height,       *)
(* walls], walls giving for the key of each cell the directions in which   *)
(* it has a wall; coordinates are records [row, col].  No entry point is   *)
(* added to a grid here: every border wall stands.                         *)
(***************************************************************************)
\* Object.values(Direction), in their order, with DIRECTION_DELTAS
DIRECTION_DELTAS ==
  << [name |-> "north", row |-> -1, col |-> 0],
     [name |-> "south", row |-> 1, col |-> 0],
     [name |-> "east", row |-> 0, col |-> 1],
     [name |-> "west", row |-> 0, col |-> -1] >>

coordinatesToString(coords) == CellStr(Num(coords.row), Num(coords.col))

\* getAllCells(): row by row
getAllCells(g) ==
  [k \in 1 .. (g.width * g.height) |->
     [row |-> (k - 1) \div g.width, col |-> (k - 1) % g.width]]

\* new RectangularGrid(width, height), after initializeGrid
WallGrid(w, h) ==
  [kind |-> "walls", width |-> w, height |-> h,
   walls |-> [key \in { coordinatesToString(cell) :
                          cell \in Range(getAllCells([width |-> w, height |-> h])) } |->
                { DIRECTION_DELTAS[k].name : k \in DOMAIN DIRECTION_DELTAS }]]

isValidCoordinate(g, coords) ==
  /\ coords.row >= 0 /\ coords.row < g.height
  /\ coords.col >= 0 /\ coords.col < g.width

getNeighbors(g, coords) ==
  SelectSeq([k \in DOMAIN DIRECTION_DELTAS |->
               [row |-> coords.row + DIRECTION_DELTAS[k].row,
                col |-> coords.col + DIRECTION_DELTAS[k].col]],
            LAMBDA neighbor : isValidCoordinate(g, neighbor))

\* getDirection(from, to), and its reverse: "null" when to is not next to from
getDirection(from, to) ==
  LET found == { k \in DOMAIN DIRECTION_DELTAS :
                   /\ to.row - from.row = DIRECTION_DELTAS[k].row
                   /\ to.col - from.col = DIRECTION_DELTAS[k].col }
  IN IF found = {} THEN "null" ELSE DIRECTION_DELTAS[CHOOSE k \in found : TRUE].name

\* hasWall(from, to)
hasWall(g, from, to) ==
  IF ~isValidCoordinate(g, from) \/ ~isValidCoordinate(g, to) THEN TRUE
  ELSE IF getDirection(from, to) = "null" THEN TRUE
  ELSE getDirection(from, to) \in g.walls[coordinatesToString(from)]

\* removeWall(from, to) for two valid coordinates (it throws for others)
removeWall(g, from, to) ==
  IF getDirection(from, to) = "null" THEN g
  ELSE [g EXCEPT !.walls[coordinatesToString(from)] = @ \ {getDirection(from, to)},
                 !.walls[coordinatesToString(to)] = @ \ {getDirection(to, from)}]

\* MazeValidator.countPassages: a pair of neighbors is counted the first
\* time it is met without a wall
countPassages(g) ==
  LET pairs == Flatten([k \in DOMAIN getAllCells(g) |->
                          [n \in DOMAIN getNeighbors(g, getAllCells(g)[k]) |->
                             << getAllCells(g)[k], getNeighbors(g, getAllCells(g)[k])[n] >>]])
      PairKey(pr) == makePassage(coordinatesToString(pr[1]), coordinatesToString(pr[2]))
  IN Cardinality({ k \in DOMAIN pairs :
                     /\ ~hasWall(g, pairs[k][1], pairs[k][2])
                     /\ \A j \in 1 .. (k - 1) :
                          PairKey(pairs[j]) = PairKey(pairs[k])
                            => hasWall(g, pairs[j][1], pairs[j][2]) })

\* MazeValidator.isConnected lines 67-80: the search, visited being keys
RECURSIVE ReachableCells(_, _, _)
ReachableCells(g, queue, visited) ==
  IF queue = << >> THEN visited
  ELSE LET currentCell == Head(queue)
           open == SelectSeq(getNeighbors(g, currentCell),
                             LAMBDA neighbor :
                               /\ ~hasWall(g, currentCell, neighbor)
                               /\ ~Includes(visited, coordinatesToString(neighbor)))
       IN ReachableCells(g, Tail(queue) \o open,
                         visited \o [k \in DOMAIN open |-> coordinatesToString(open[k])])

\* MazeValidator.validate
validate(g) ==
  LET cellCount == g.width * g.height
      passageCount == countPassages(g)
      connected ==
        IF cellCount = 0 \/ cellCount = 1 THEN TRUE
        ELSE Len(ReachableCells(g, << getAllCells(g)[1] >>,
                                << coordinatesToString(getAllCells(g)[1]) >>)) = cellCount
      noCycles == passageCount = cellCount - 1
  IN [isValid |-> connected /\ noCycles,
      isConnected |-> connected,
      hasNoCycles |-> noCycles,
      cellCount |-> cellCount,
      passageCount |-> passageCount,
      errors |-> (IF connected THEN << >> ELSE << "not connected" >>)
                 \o (IF noCycles THEN << >> ELSE << "cycles" >>)]

\* new RectangularGrid(w, h) of the wall-tracking grid
NewWallGrid(c) ==
  /\ call[c].pc = "idle"
  /\ grid = NoGrid
  /\ \E w \in 0 .. MaxWallSide, h \in 0 .. MaxWallSide :
       LET threw == w < 1 \/ h < 1
       IN /\ call' = [call EXCEPT
                        ![c].pc = IF threw THEN "threw" ELSE "constructed",
                        ![c].query = Asked("new RectangularGrid", << w, h >>,
                                           threw, << >>)]
          /\ grid' = IF threw THEN grid ELSE WallGrid(w, h)

\* the seeds a MazeGenerator is constructed with
Seeds == {-1, 12345}

\* the coordinates a method of the grid is called with: its cells, and one
\* position above and one below the grid
CallCoordinates(g) ==
  Range(getAllCells(g)) \cup {[row |-> -1, col |-> 0], [row |-> g.height, col |-> 0]}

\* new MazeGenerator(seed).generateWithDFS(grid, {startCell}), up to the
\* loop.  Of the generator's state only the sign is kept: a state below 0
\* yields a value in (-1, 0], any other state a value in [0, 1).
DfsStart(c) ==
  /\ call[c].pc = "constructed"
  /\ grid.kind = "walls"
  /\ \E seed \in Seeds, startCell \in CallCoordinates(grid) :
       LET threw == ~isValidCoordinate(grid, startCell)
       IN call' = [call EXCEPT
                     ![c].pc = IF threw THEN "threw" ELSE "dfs",
                     ![c].query = Asked("generateWithDFS", << seed, startCell >>,
                                        threw, << >>),
                     ![c].dfs = IF threw THEN NoDfs
                                ELSE [visited |-> << coordinatesToString(startCell) >>,
                                      stack |-> << >>,
                                      currentCell |-> startCell,
                                      negative |-> seed < 0]]
  /\ UNCHANGED grid

\* maze-generator.js lines 35-59: the test of the loop and one iteration.
\* The value of rng is k / RandRes, below 0 for a state below 0; an index
\* below 0 reads undefined from the array and removeWall throws a TypeError
\* on it.
DfsStep(c) ==
  /\ call[c].pc = "dfs"
  /\ LET d == call[c].dfs
         unvisitedNeighbors ==
           SelectSeq(getNeighbors(grid, d.currentCell),
                     LAMBDA neighbor : ~Includes(d.visited, coordinatesToString(neighbor)))
         Finished == /\ call' = [call EXCEPT ![c].pc = "generated", ![c].dfs = NoDfs]
                     /\ UNCHANGED grid
     IN IF Len(d.visited) >= grid.width * grid.height THEN Finished
        ELSE IF Len(unvisitedNeighbors) > 0
          THEN \E k \in 0 .. (RandRes - 1) :
                 LET randomIndex == ((IF d.negative THEN -k ELSE k)
                                       * Len(unvisitedNeighbors)) \div RandRes
                     chosenNeighbor == unvisitedNeighbors[randomIndex + 1]
                 IN IF randomIndex < 0
                      THEN /\ call' = [call EXCEPT ![c].pc = "threw",
                                                    ![c].query.threw = TRUE,
                                                    ![c].dfs = NoDfs]
                           /\ UNCHANGED grid
                      ELSE /\ call' = [call EXCEPT
                                         ![c].dfs = [visited |-> SetAdd(d.visited,
                                                                        coordinatesToString(chosenNeighbor)),
                                                     stack |-> Append(d.stack, d.currentCell),
                                                     currentCell |-> chosenNeighbor,
                                                     negative |-> d.negative /\ k # 0]]
                           /\ grid' = removeWall(grid, d.currentCell, chosenNeighbor)
        ELSE IF Len(d.stack) > 0
          THEN /\ call' = [call EXCEPT
                             ![c].dfs.stack = SubSeq(d.stack, 1, Len(d.stack) - 1),
                             ![c].dfs.currentCell = d.stack[Len(d.stack)]]
               /\ UNCHANGED grid
        ELSE Finished

\* grid.removeWall(from, to), called by hand
RemoveWallCall(c) ==
  /\ call[c].pc \in {"constructed", "carved"}
  /\ grid.kind = "walls"
  /\ \E from \in CallCoordinates(grid), to \in CallCoordinates(grid) :
       LET threw == ~isValidCoordinate(grid, from) \/ ~isValidCoordinate(grid, to)
       IN /\ call' = [call EXCEPT
                        ![c].pc = "carved",
                        ![c].query = Asked("removeWall", << >>, threw, << >>)]
          /\ grid' = IF threw THEN grid ELSE removeWall(grid, from, to)

\* MazeValidator.validate(grid)
ValidateCall(c) ==
  /\ call[c].pc \in {"constructed", "carved", "generated"}
  /\ grid.kind = "walls"
  /\ call' = [call EXCEPT
                ![c].pc = "validated",
                ![c].query = Asked("validate", << >>, FALSE, validate(grid))]
  /\ UNCHANGED grid

(***************************************************************************)
(* SpecDfs: a wall-tracking grid is constructed, generateWithDFS runs on   *)
(* it and MazeValidator.validate is called on what it leaves.              *)
(* SpecWalls: a wall-tracking grid is constructed, removeWall is called on *)
(* it any number of times, then MazeValidator.validate.                    *)
(***************************************************************************)
NextDfs ==
  \/ NewWallGrid(1)
  \/ DfsStart(1)
  \/ DfsStep(1)
  \/ ValidateCall(1)

SpecDfs == InitGrid /\ [][NextDfs]_vars

NextWalls ==
  \/ NewWallGrid(1)
  \/ RemoveWallCall(1)
  \/ ValidateCall(1)

SpecWalls == InitGrid /\ [][NextWalls]_vars

(***************************************************************************)
(* SpecConnected: isConnected is called with a set of up to four nodes and *)
(* a list of edges, each candidate edge present or not; the edges may      *)
(* touch nodes that the set lacks.                                         *)
(***************************************************************************)
\* spanning-tree.ts lines 113-124: the loop over the queue
RECURSIVE ConnectedVisit(_, _, _)
ConnectedVisit(adj, queue, visited) ==
  IF queue = << >> THEN visited
  ELSE LET current == Head(queue)
           seen == Append(visited, current)
       IN IF Includes(visited, current)
            THEN ConnectedVisit(adj, Tail(queue), visited)
            ELSE ConnectedVisit(adj,
                                Tail(queue) \o SelectSeq(AdjGet(adj, current),
                                                         LAMBDA n : ~Includes(seen, n)),
                                seen)

\* isConnected(nodes, edges): adj has a key for each node of nodes only
isConnected(nodes, edges) ==
  IF Len(nodes) = 0 THEN TRUE
  ELSE IF Len(nodes) = 1 THEN TRUE
  ELSE LET adj == [n \in Range(nodes) |->
                     ToSet(Flatten([k \in DOMAIN edges |->
                                      (IF edges[k].from = n THEN << edges[k].to >>
                                                            ELSE << >>)
                                      \o (IF edges[k].to = n THEN << edges[k].from >>
                                                             ELSE << >>)]))]
           visited == ConnectedVisit(adj, << nodes[1] >>, << >>)
       IN Len(visited) = Len(nodes)

InitConnected ==
  /\ grid = NoGrid
  /\ \E kinds \in [DOMAIN CandidateEdges -> {"absent", "removable"}],
        n \in 0 .. 4 :
       call = [c \in CallIds |->
                 IF c = 1
                   THEN [IdleCall EXCEPT
                           !.pc = "called",
                           !.graph = GraphOf(kinds, SubSeq(<< IdA, IdB, IdC, IdD >>, 1, n))]
                   ELSE IdleCall]

AskConnected(c) ==
  /\ call[c].pc = "called"
  /\ call' = [call EXCEPT
                ![c].pc = "returned",
                ![c].query = Asked("isConnected", << >>, FALSE,
                                   isConnected(call[c].graph.nodes, call[c].graph.edges))]
  /\ UNCHANGED grid

SpecConnected == InitConnected /\ [][AskConnected(1)]_vars

(***************************************************************************)
(* toRenderable.  A coordinate of the output is a number                   *)
(* (a + b * sqrt(3)) / 20 with integers a and b, written << a, b >>; the   *)
(* arithmetic of the code is followed over the real numbers.  A maze       *)
(* handed to toRenderable has the cells of the grid.                       *)
(***************************************************************************)
\* p < q for two coordinates
CoordLess(p, q) ==
  LET u == p[1] - q[1]
      v == p[2] - q[2]
  IN IF v = 0 THEN u < 0
     ELSE IF u = 0 THEN v < 0
     ELSE IF u < 0 /\ v < 0 THEN TRUE
     ELSE IF u > 0 /\ v > 0 THEN FALSE
     ELSE IF u < 0 THEN 3 * v * v < u * u
     ELSE u * u < 3 * v * v

\* edgeKey: Math.min and Math.max of the two ends, coordinate by coordinate
EdgeKey(e) ==
  LET Least(p, q) == IF CoordLess(q, p) THEN q ELSE p
      Most(p, q) == IF CoordLess(p, q) THEN q ELSE p
  IN << Least(e.x1, e.x2), Least(e.y1, e.y2), Most(e.x1, e.x2), Most(e.y1, e.y2) >>

\* every wall is pushed, whether or not its key was seen
KeepAllEdges(walls) == walls

\* edgeSet: a wall is pushed unless a wall with its key was pushed before
DistinctEdges(walls) ==
  LET firsts == SelectSeq([k \in DOMAIN walls |-> k],
                          LAMBDA k : \A j \in 1 .. (k - 1) :
                                       EdgeKey(walls[j]) # EdgeKey(walls[k]))
  IN [n \in DOMAIN firsts |-> walls[firsts[n]]]

\* passageSet: both directions of every passage between two cells
PassageSet(maze) ==
  UNION { {<< ps[1], ps[2] >>, << ps[2], ps[1] >>} :
            ps \in { q \in Range(maze.passages) :
                       Includes(maze.cells, q[1]) /\ Includes(maze.cells, q[2]) } }

\* the type of a cell of the output, without a solution
CellType(maze, cell) ==
  IF cell = maze.entrance THEN "entrance"
  ELSE IF cell = maze.exit THEN "exit"
  ELSE "normal"

RectDirections == << << 1, 0 >>, << 0, 1 >>, << -1, 0 >>, << 0, -1 >> >>

RectToRenderable(g, maze) ==
  LET passageSet == PassageSet(maze)
      X(cell) == RectParse(cell).x.v
      Y(cell) == RectParse(cell).y.v
      Wall(cell, d) ==
        LET neighborX == X(cell) + d[1]
            neighborY == Y(cell) + d[2]
            neighborId == CellStr(Num(neighborX), Num(neighborY))
            neighborExists == /\ neighborX >= 0 /\ neighborX < g.width
                              /\ neighborY >= 0 /\ neighborY < g.height
            shouldRenderWall ==
              IF ~neighborExists THEN TRUE
              ELSE /\ Includes(maze.cells, neighborId)
                   /\ << cell, neighborId >> \notin passageSet
            midX == 20 * X(cell) + 10 * d[1]
            midY == 20 * Y(cell) + 10 * d[2]
        IN IF ~shouldRenderWall THEN << >>
           ELSE IF d[1] # 0
             THEN << [x1 |-> << midX, 0 >>, y1 |-> << midY - 8, 0 >>,
                      x2 |-> << midX, 0 >>, y2 |-> << midY + 8, 0 >>] >>
             ELSE << [x1 |-> << midX - 8, 0 >>, y1 |-> << midY, 0 >>,
                      x2 |-> << midX + 8, 0 >>, y2 |-> << midY, 0 >>] >>
  IN [edges |-> DistinctEdges(
                  Flatten([k \in DOMAIN maze.cells |->
                             Flatten([n \in DOMAIN RectDirections |->
                                        Wall(maze.cells[k], RectDirections[n])])])),
      cells |-> [k \in DOMAIN maze.cells |->
                   [x |-> << 20 * X(maze.cells[k]), 0 >>,
                    y |-> << 20 * Y(maze.cells[k]), 0 >>,
                    type |-> CellType(maze, maze.cells[k])]]]

\* the six directions are those of neighbors, in the same order; the
\* distance between two neighboring centres is 1
HexToRenderable(g, maze) ==
  LET passageSet == PassageSet(maze)
      Q(cell) == parseAxialCoords(cell).q
      R(cell) == parseAxialCoords(cell).r
      Wall(cell, d) ==
        LET neighborId == CellStr(Num(Q(cell) + d[1]), Num(R(cell) + d[2]))
            shouldRenderWall ==
              IF ~isValidCell(g, neighborId) THEN TRUE
              ELSE /\ Includes(maze.cells, neighborId)
                   /\ << cell, neighborId >> \notin passageSet
            midX == 20 * Q(cell) + 10 * R(cell) + 10 * d[1] + 5 * d[2]
            midY == 10 * R(cell) + 5 * d[2]
            perpX == -4 * d[2]
            perpY == 8 * d[1] + 4 * d[2]
        IN IF ~shouldRenderWall THEN << >>
           ELSE << [x1 |-> << midX, perpX >>, y1 |-> << perpY, midY >>,
                    x2 |-> << midX, -perpX >>, y2 |-> << -perpY, midY >>] >>
  IN [edges |-> DistinctEdges(
                  Flatten([k \in DOMAIN maze.cells |->
                             Flatten([n \in DOMAIN neighborOffsets |->
                                        Wall(maze.cells[k], neighborOffsets[n])])])),
      cells |-> [k \in DOMAIN maze.cells |->
                   [x |-> << 20 * Q(maze.cells[k]) + 10 * R(maze.cells[k]), 0 >>,
                    y |-> << 0, 10 * R(maze.cells[k]) >>,
                    type |-> CellType(maze, maze.cells[k])]]]

\* grid.toRenderable(maze)
Render(c) ==
  /\ HasMaze(c)
  /\ grid.kind \in {"rect", "hex"}
  /\ call[c].query.op # "toRenderable"
  /\ call' = [call EXCEPT
                ![c].pc = Handed(@),
                ![c].query = Asked("toRenderable", << >>, FALSE,
                                   IF grid.kind = "rect"
                                     THEN RectToRenderable(grid, call[c].maze)
                                     ELSE HexToRenderable(grid, call[c].maze))]
  /\ UNCHANGED grid

(***************************************************************************)
(* SpecRender: a maze that generateMaze returned for a grid of one of the  *)
(* providers, or a maze built by hand as in SpecHand, is handed to         *)
(* toRenderable.                                                           *)
(***************************************************************************)
InitRender ==
  \/ /\ grid \in ProviderGrids
     /\ call = [c \in CallIds |-> IdleCall]
  \/ InitHand

NextRender ==
  \/ Start(1)
  \/ ShuffleStep(1)
  \/ FixedStep(1)
  \/ RemovableStep(1)
  \/ Return(1)
  \/ AddPassage(1)
  \/ Render(1)

SpecRender == InitRender /\ [][NextRender]_vars

(***************************************************************************)
(* Graph notions used to state the properties.                             *)
(***************************************************************************)
CellSet(m) == Range(m.cells)

\* the passages whose two ends are cells
InnerPassages(m) ==
  SelectSeq(m.passages, LAMBDA p : p[1] \in CellSet(m) /\ p[2] \in CellSet(m))

\* a passage of the maze joins a and b
Joined(m, a, b) ==
  \E k \in DOMAIN m.passages :
    {m.passages[k][1], m.passages[k][2]} = {a, b}

\* a passage between two cells joins a and b
InnerJoined(m, a, b) ==
  a \in CellSet(m) /\ b \in CellSet(m) /\ Joined(m, a, b)

\* what is reached from the set seen by crossing passages between cells
RECURSIVE ReachFrom(_, _)
ReachFrom(m, seen) ==
  LET more == { b \in CellSet(m) : \E a \in seen : InnerJoined(m, a, b) }
  IN IF more \subseteq seen THEN seen ELSE ReachFrom(m, seen \cup more)

Reach(m, a) == ReachFrom(m, {a})

Connected(m) == \A a \in CellSet(m) : Reach(m, a) = CellSet(m)

Components(m) == { Reach(m, a) : a \in CellSet(m) }

\* a forest: as many passages between cells as cells minus components
Acyclic(m) ==
  Len(InnerPassages(m)) = Cardinality(CellSet(m)) - Cardinality(Components(m))

SpanningTree(m) ==
  /\ Len(m.passages) = Cardinality(CellSet(m)) - 1
  /\ Connected(m)
  /\ Acyclic(m)

\* the boundary walls the grid reports for the cells other than the
\* entrance and the exit
PerimeterWalls(g) ==
  UNION { Range(BoundaryWalls(g, c)) :
            c \in Range(Cells(g)) \ {EntranceCell(g), ExitCell(g)} }

Touches(p, c) == p[1] = c \/ p[2] = c

Done(c) == call[c].pc = "done"

\* path is a walk from the entrance to the exit along passages
IsSolution(m, path) ==
  /\ Len(path) >= 1
  /\ path[1] = m.entrance
  /\ path[Len(path)] = m.exit
  /\ \A k \in 1 .. (Len(path) - 1) : Joined(m, path[k], path[k + 1])

(***************************************************************************)
(* C1: for the grids of the two providers and every random source, the     *)
(* passages of the maze generateMaze returns form a spanning tree of its   *)
(* cells: |cells| - 1 passages, every cell reachable from every other      *)
(* cell, no cycle.                                                         *)
(***************************************************************************)
C1_SpanningTree ==
  (Done(1) /\ grid \in ProviderGrids) => SpanningTree(call[1].maze)

\* a hexagonal maze has been returned after a shuffle that moved an edge
C1_Witness ==
  /\ Done(1)
  /\ grid = HexGrid(1)
  /\ \E k \in DOMAIN call[1].draws : call[1].draws[k] # 0
  /\ Len(call[1].maze.passages) = 6

(***************************************************************************)
(* C2: for every grid that satisfies the Grid contract, also one whose     *)
(* cells share an exterior identifier in their boundary walls, the         *)
(* returned maze has its entrance and exit among its cells, |cells| - 1    *)
(* passages that connect the cells without a cycle, and no boundary wall   *)
(* at the entrance or the exit.                                            *)
(***************************************************************************)
MazeInvariants(m) ==
  /\ m.entrance \in CellSet(m)
  /\ m.exit \in CellSet(m)
  /\ SpanningTree(m)
  /\ \A k \in DOMAIN m.boundaryWalls :
       /\ ~Touches(m.boundaryWalls[k], m.entrance)
       /\ ~Touches(m.boundaryWalls[k], m.exit)

C2_AnyGrid == Done(1) => MazeInvariants(call[1].maze)

(***************************************************************************)
(* C3: the boundary walls of a returned maze are exactly the edges         *)
(* grid.boundaryWalls reports for the cells other than the entrance and    *)
(* the exit; none has the entrance or the exit as an end.                  *)
(***************************************************************************)
C3_BoundaryWalls ==
  Done(1) =>
    LET m == call[1].maze
    IN /\ Range(m.boundaryWalls) = PerimeterWalls(grid)
       /\ \A w \in Range(m.boundaryWalls) :
            ~Touches(w, m.entrance) /\ ~Touches(w, m.exit)

\* a maze with boundary walls has been returned for a grid whose entrance
\* cell has a boundary wall of its own
C3_Witness ==
  /\ Done(1)
  /\ call[1].maze.boundaryWalls # << >>
  /\ BoundaryWalls(grid, EntranceCell(grid)) # << >>

(***************************************************************************)
(* C4: every passage of a returned maze joins two cells that are neighbors *)
(* in the grid; no boundary wall of a cell other than the entrance and the *)
(* exit, and no edge to an exterior identifier, is a passage.              *)
(***************************************************************************)
C4_PassagesInside ==
  Done(1) =>
    LET m == call[1].maze
    IN \A p \in Range(m.passages) :
         /\ p[1] \in CellSet(m)
         /\ p[2] \in CellSet(m)
         /\ Includes(Neighbors(grid, p[1]), p[2])
         /\ p \notin PerimeterWalls(grid)

\* a maze with passages and boundary walls has been returned
C4_Witness ==
  /\ Done(1)
  /\ call[1].maze.passages # << >>
  /\ PerimeterWalls(grid) # {}
  /\ grid \in ProviderGrids

(***************************************************************************)
(* C6: for every maze generateMaze returns, solveMaze returns a path from  *)
(* the entrance to the exit whose consecutive cells are joined by a        *)
(* passage.                                                                *)
(***************************************************************************)
C6_Solvable ==
  (Done(1) /\ call[1].solved) =>
    /\ call[1].solution.found
    /\ IsSolution(call[1].maze, call[1].solution.path)

PassageIds(m) == UNION { {p[1], p[2]} : p \in Range(m.passages) }

\* the length of a shortest walk from seen to the exit over joins, -1 if none
RECURSIVE StepsFrom(_, _, _, _)
StepsFrom(m, seen, d, inner) ==
  LET more == IF inner
                THEN { b \in CellSet(m) : \E a \in seen : InnerJoined(m, a, b) }
                ELSE { b \in PassageIds(m) : \E a \in seen : Joined(m, a, b) }
  IN IF m.exit \in seen THEN d
     ELSE IF more \subseteq seen THEN -1
     ELSE StepsFrom(m, seen \cup more, d + 1, inner)

\* through any passages
PassageDistance(m) == StepsFrom(m, {m.entrance}, 0, FALSE)

\* through passages between two cells
CellDistance(m) == StepsFrom(m, {m.entrance}, 0, TRUE)

C7_ShortestThroughPassages ==
  (call[1].solved /\ call[1].solution.found) =>
    Len(call[1].solution.path) - 1 <= PassageDistance(call[1].maze)

(***************************************************************************)
(* C7, amended: whenever solveMaze returns a path, it is a path from the   *)
(* entrance to the exit and no path through passages whose two ends are    *)
(* both cells has fewer steps.                                             *)
(***************************************************************************)
C7_ShortestAmongCells ==
  (call[1].solved /\ call[1].solution.found) =>
    /\ IsSolution(call[1].maze, call[1].solution.path)
    /\ Len(call[1].solution.path) - 1 = CellDistance(call[1].maze)

\* a path of two steps was returned for a maze with a cycle
C7_Witness ==
  /\ call[1].solved
  /\ call[1].solution.found
  /\ ~Acyclic(call[1].maze)
  /\ Len(call[1].solution.path) = 3

(***************************************************************************)
(* C8: solveMaze terminates, and it returns null exactly when the exit     *)
(* cannot be reached from the entrance through passages whose two ends     *)
(* are both cells.                                                         *)
(***************************************************************************)
C8_NullIffUnreachable ==
  call[1].solved =>
    LET m == call[1].maze
    IN /\ ~call[1].solution.found <=> m.exit \notin Reach(m, m.entrance)
       /\ call[1].solution.dequeued <= Cardinality(CellSet(m) \cup {m.entrance})

\* null was returned for a maze with passages at its entrance
C8_Witness ==
  /\ call[1].solved
  /\ ~call[1].solution.found
  /\ call[1].maze.entrance \in CellSet(call[1].maze)
  /\ call[1].maze.exit \in CellSet(call[1].maze)
  /\ Cardinality(Reach(call[1].maze, call[1].maze.entrance)) >= 2

(***************************************************************************)
(* C9: validateMaze returns a violation for every maze whose number of     *)
(* passages is not |cells| - 1.                                            *)
(***************************************************************************)
C9_CountChecked ==
  (call[1].validated /\ ~call[1].validateThrew
     /\ Len(call[1].maze.passages) # Cardinality(CellSet(call[1].maze)) - 1) =>
    call[1].errors # << >>

(***************************************************************************)
(* C10: validateMaze returns a violation for every maze one of whose       *)
(* passages is a boundary wall the grid reports for a cell that is neither *)
(* the entrance nor the exit.                                              *)
(***************************************************************************)
C10_PerimeterChecked ==
  (call[1].validated /\ ~call[1].validateThrew
     /\ \E p \in Range(call[1].maze.passages) : p \in PerimeterWalls(grid)) =>
    call[1].errors # << >>

(***************************************************************************)
(* C11: for the grids of the two providers and every random source,        *)
(* validateMaze answers the empty list for the maze generateMaze returned  *)
(* for the same grid.                                                      *)
(***************************************************************************)
C11_GeneratedIsValid ==
  (Done(1) /\ call[1].validated /\ grid \in ProviderGrids) =>
    /\ ~call[1].validateThrew
    /\ call[1].errors = << >>

\* a hexagonal maze generated after a shuffle that moved an edge has been
\* validated
C11_Witness ==
  /\ Done(1)
  /\ call[1].validated
  /\ grid = HexGrid(1)
  /\ \E k \in DOMAIN call[1].draws : call[1].draws[k] # 0

(***************************************************************************)
(* C12: validateMaze never throws: for every maze and either provider's    *)
(* grid, also when the cells and passages hold identifiers the grid did    *)
(* not produce or cannot parse, it returns a list of violations.           *)
(***************************************************************************)
C12_NeverThrows == call[1].validated => ~call[1].validateThrew

(***************************************************************************)
(* C13: generateMaze fails with an error and returns no maze whenever the  *)
(* entrance cell or the exit cell of the grid is not one of its cells.     *)
(***************************************************************************)
C13_BadEndsThrow ==
  (/\ call[1].pc # "idle"
   /\ \/ EntranceCell(grid) \notin Range(Cells(grid))
      \/ ExitCell(grid) \notin Range(Cells(grid))) =>
    /\ call[1].pc = "threw"
    /\ call[1].maze = NoMaze
    /\ call[1].shuffled = << >>

\* the call has thrown for a grid whose entrance is a cell and whose exit
\* is not
C13_Witness ==
  /\ call[1].pc = "threw"
  /\ EntranceCell(grid) \in Range(Cells(grid))
  /\ ExitCell(grid) \notin Range(Cells(grid))

(***************************************************************************)
(* C14: when the result of spanningTree holds an edge neither end of which *)
(* is a cell, generateMaze fails instead of returning a maze.              *)
(***************************************************************************)
HasStrayEdge(treeEdges, g) ==
  \E e \in Range(treeEdges) :
    e.from \notin Range(Cells(g)) /\ e.to \notin Range(Cells(g))

C14_StrayEdgeRejected ==
  [][(call[1].pc = "running" /\ HasStrayEdge(call[1].result, grid))
       => call[1].pc' # "done"]_vars

(***************************************************************************)
(* Notions on lists of edges, used for the properties of spanningTree.     *)
(***************************************************************************)
Returned(c) == call[c].pc = "returned"

\* how many times x occurs in the list
Count(list, x) == Cardinality({ k \in DOMAIN list : list[k] = x })

\* the nodes the edges touch
EdgeNodes(edges) == UNION { {e.from, e.to} : e \in Range(edges) }

\* what is reached from the set seen along the edges
RECURSIVE EdgeReachFrom(_, _)
EdgeReachFrom(edges, seen) ==
  LET more == { n \in EdgeNodes(edges) :
                  \E e \in Range(edges) :
                    \/ e.from \in seen /\ e.to = n
                    \/ e.to \in seen /\ e.from = n }
  IN IF more \subseteq seen THEN seen ELSE EdgeReachFrom(edges, seen \cup more)

Linked(edges, a, b) == b \in EdgeReachFrom(edges, {a})

\* the number of sets the edges partition the nodes into
EdgeComponents(nodes, edges) ==
  Cardinality({ EdgeReachFrom(edges, {n}) : n \in nodes })

\* no cycle: as many edges as nodes minus components
Forest(edges) ==
  Len(edges) = Cardinality(EdgeNodes(edges))
                 - EdgeComponents(EdgeNodes(edges), edges)

(***************************************************************************)
(* C15, as claimed: for every input graph the output of spanningTree holds *)
(* every input edge marked isFixed, once each.                             *)
(***************************************************************************)
FixedAllKept(c) ==
  \A e \in Range(call[c].graph.edges) :
    e.isFixed => Count(call[c].result, e) = Count(call[c].graph.edges, e)

C15_FixedKept == Returned(1) => FixedAllKept(1)

(***************************************************************************)
(* C15, amended: for every input graph whose node set is not empty the     *)
(* output of spanningTree holds every input edge marked isFixed, once      *)
(* each, whether or not its ends were in one set when it was processed;    *)
(* for an empty node set the output is empty.                              *)
(***************************************************************************)
C15_FixedKeptUnlessEmpty ==
  Returned(1) =>
    IF call[1].graph.nodes = << >> THEN call[1].result = << >>
                                  ELSE FixedAllKept(1)

\* three fixed edges on a cycle have been returned: the ends of the last
\* were in one set already
C15_Witness ==
  /\ Returned(1)
  /\ {Edge(IdA, IdB, TRUE), Edge(IdB, IdC, TRUE), Edge(IdA, IdC, TRUE)}
       \subseteq Range(call[1].result)

(***************************************************************************)
(* C16: for every input graph, with or without fixed edges, the removable  *)
(* edges of the output have no cycle and connect every two nodes that the  *)
(* removable edges of the input connect.                                   *)
(***************************************************************************)
C16_RemovableSpanning ==
  Returned(1) =>
    LET inp == removableEdgesOf(call[1].graph.edges)
        out == removableEdgesOf(call[1].result)
    IN /\ Forest(out)
       /\ \A a \in EdgeNodes(inp), b \in EdgeNodes(inp) :
            Linked(inp, a, b) => Linked(out, a, b)

(***************************************************************************)
(* C17, as claimed: whatever graph.nodes holds, a removable edge is taken  *)
(* into the union-find by its ends and is in the output when it joined two *)
(* different sets.                                                         *)
(***************************************************************************)
\* every removable input edge has its ends joined by the output, and the
\* output has one removable edge for each two sets that were merged after
\* the fixed edges
RemovableAllTaken(c) ==
  LET g == call[c].graph
      all == EdgeNodes(g.edges)
  IN /\ \A e \in Range(removableEdgesOf(g.edges)) :
          Linked(call[c].result, e.from, e.to)
     /\ Len(removableEdgesOf(call[c].result))
          = EdgeComponents(all, fixedEdgesOf(g.edges)) - EdgeComponents(all, g.edges)

C17_NodesDiscovered == Returned(1) => RemovableAllTaken(1)

(***************************************************************************)
(* C17, amended: when graph.nodes is not empty, whatever else it holds, a  *)
(* removable edge is taken into the union-find by its ends and is in the   *)
(* output when it joined two different sets; when graph.nodes is empty the *)
(* output is empty.                                                        *)
(***************************************************************************)
C17_NodesDiscoveredUnlessEmpty ==
  Returned(1) =>
    IF call[1].graph.nodes = << >> THEN call[1].result = << >>
                                  ELSE RemovableAllTaken(1)

\* a removable edge between c and d has been returned for a graph whose
\* nodes hold a alone
C17_Witness ==
  /\ Returned(1)
  /\ call[1].graph.nodes = << IdA >>
  /\ Edge(IdC, IdD, FALSE) \in Range(call[1].result)

(***************************************************************************)
(* C18: for both providers and every size that can be constructed,         *)
(* neighbors is symmetric and closed: for cells a and b, b is a neighbor   *)
(* of a exactly when a is a neighbor of b, and every neighbor of a is a    *)
(* cell other than a.                                                      *)
(***************************************************************************)
C18_NeighborsSymmetric ==
  (call[1].query.op = "neighbors" /\ call[1].query.args[1] \in Range(Cells(grid))) =>
    LET a == call[1].query.args[1]
        ns == call[1].query.value
    IN /\ ~call[1].query.threw
       /\ \A b \in Range(ns) :
            /\ b \in Range(Cells(grid))
            /\ b # a
            /\ Includes(Neighbors(grid, b), a)
       /\ \A b \in Range(Cells(grid)) :
            Includes(Neighbors(grid, b), a) => Includes(ns, b)

\* the six neighbors of the centre of a hexagonal grid have been returned
C18_Witness ==
  /\ grid = HexGrid(2)
  /\ call[1].query.op = "neighbors"
  /\ call[1].query.args[1] = CellStr(Num(0), Num(0))
  /\ Len(call[1].query.value) = 6

(***************************************************************************)
(* C19: for both providers, neighbors(cell) fails with an error whenever   *)
(* cell is not one of the cells of the grid.                               *)
(***************************************************************************)
C19_NeighborsRejectsForeign ==
  (call[1].query.op = "neighbors" /\ call[1].query.args[1] \notin Range(Cells(grid))) =>
    call[1].query.threw

(***************************************************************************)
(* C20, as claimed: a rectangular grid is constructed for every positive   *)
(* width and height and the constructor fails when one of them is not      *)
(* positive; a hexagonal grid is constructed for every positive radius and *)
(* the constructor fails when the radius is not positive.                  *)
(***************************************************************************)
C20_PositiveSizes ==
  LET q == call[1].query
  IN /\ q.op = "new RectangularGrid" =>
          (q.threw <=> (q.args[1] <= 0 \/ q.args[2] <= 0))
     /\ q.op = "new HexagonalGrid" => (q.threw <=> q.args[1] <= 0)

(***************************************************************************)
(* C20, amended: a rectangular grid is constructed for every width and     *)
(* height of at least 2 and the constructor fails when one of them is      *)
(* below 2; a hexagonal grid is constructed for every radius of at least 1 *)
(* and the constructor fails when the radius is below 1.                   *)
(***************************************************************************)
C20_AtLeastTwoByTwo ==
  LET q == call[1].query
  IN /\ q.op = "new RectangularGrid" =>
          /\ q.threw <=> (q.args[1] < 2 \/ q.args[2] < 2)
          /\ grid = IF q.threw THEN NoGrid ELSE RectGrid(q.args[1], q.args[2])
     /\ q.op = "new HexagonalGrid" =>
          /\ q.threw <=> q.args[1] < 1
          /\ grid = IF q.threw THEN NoGrid ELSE HexGrid(q.args[1])

\* the constructor has thrown for a width of 1
C20_Witness ==
  /\ call[1].query.op = "new RectangularGrid"
  /\ call[1].query.args = << 1, 2 >>
  /\ call[1].query.threw

(***************************************************************************)
(* C21: for both providers and every cell c of cells(), boundaryWalls(c)   *)
(* holds exactly one edge for each neighbor direction of c that leaves the *)
(* grid, each edge joins c to an identifier that is not a cell, these      *)
(* identifiers differ from one another, and the list is empty exactly when *)
(* no direction of c leaves the grid.                                      *)
(***************************************************************************)
C21_OneWallPerSide ==
  (call[1].query.op = "boundaryWalls" /\ call[1].query.args[1] \in Range(Cells(grid))) =>
    LET c == call[1].query.args[1]
        walls == call[1].query.value
        directions == IF grid.kind = "rect" THEN 4 ELSE Len(neighborOffsets)
        sides == directions - Len(Neighbors(grid, c))
        Other(w) == IF w[1] = c THEN w[2] ELSE w[1]
    IN /\ Len(walls) = sides
       /\ \A k \in DOMAIN walls :
            /\ c \in { walls[k][1], walls[k][2] }
            /\ Other(walls[k]) \notin Range(Cells(grid))
            /\ \A j \in DOMAIN walls : j # k => Other(walls[j]) # Other(walls[k])

(***************************************************************************)
(* C22: for every radius R >= 1, cells() of the hexagonal grid lists       *)
(* exactly the axial pairs (q, r) with max(|q|, |r|, |q+r|) <= R, each     *)
(* once, which is 3*R*(R+1)+1 cells.                                       *)
(***************************************************************************)
C22_HexCellCount ==
  (call[1].query.op = "cells" /\ grid.kind = "hex") =>
    LET R == grid.radius
        listed == call[1].query.value
        Within(q, r) == /\ Abs(q) <= R
                        /\ Abs(r) <= R
                        /\ Abs(q + r) <= R
        expected == { CellStr(Num(q), Num(r)) :
                        << q, r >> \in { qr \in ((-R - 1) .. (R + 1)) \X ((-R - 1) .. (R + 1)) :
                                          Within(qr[1], qr[2]) } }
    IN /\ R >= 1
       /\ Range(listed) = expected
       /\ \A j, k \in DOMAIN listed : listed[j] = listed[k] => j = k
       /\ Len(listed) = 3 * R * (R + 1) + 1

\* the 19 cells of the grid of radius 2 have been listed
C22_Witness ==
  /\ grid = HexGrid(2)
  /\ call[1].query.op = "cells"
  /\ Len(call[1].query.value) = 19

(***************************************************************************)
(* C23, as claimed: for the rectangular grid of 5 x 5 cells and every      *)
(* random source, the generated maze has entrance 0,0, exit 4,4 and 24     *)
(* passages, and solveMaze returns a path, a sequence of cells, of length  *)
(* at least 8 and at most 24.                                              *)
(***************************************************************************)
C23_PathOf8To24 ==
  /\ Done(1) =>
       /\ call[1].maze.entrance = CellStr(Num(0), Num(0))
       /\ call[1].maze.exit = CellStr(Num(4), Num(4))
       /\ Len(call[1].maze.passages) = 24
  /\ (Done(1) /\ call[1].solved) =>
       /\ call[1].solution.found
       /\ Len(call[1].solution.path) >= 8
       /\ Len(call[1].solution.path) <= 24

(***************************************************************************)
(* C23, amended: for the rectangular grid of 5 x 5 cells and every random  *)
(* source, the generated maze has entrance 0,0, exit 4,4 and 24 passages,  *)
(* and solveMaze returns a path of at least 9 and at most 25 cells, the    *)
(* entrance and the exit included: 8 to 24 steps.                          *)
(***************************************************************************)
C23_PathOf9To25Cells ==
  /\ Done(1) =>
       /\ call[1].maze.entrance = CellStr(Num(0), Num(0))
       /\ call[1].maze.exit = CellStr(Num(4), Num(4))
       /\ Len(call[1].maze.passages) = 24
  /\ (Done(1) /\ call[1].solved) =>
       /\ call[1].solution.found
       /\ Len(call[1].solution.path) >= 9
       /\ Len(call[1].solution.path) <= 25

\* a maze of the 5 x 5 grid whose solution passes through all its 25 cells
C23_Witness ==
  /\ grid = RectGrid(5, 5)
  /\ Done(1)
  /\ call[1].solved
  /\ call[1].solution.found
  /\ Len(call[1].solution.path) = 25

(***************************************************************************)
(* What one call of generateMaze returns when it runs alone on grid g with *)
(* a random source that returns the values draws, computed in one piece.   *)
(***************************************************************************)
RECURSIVE ShuffledBy(_, _, _)
ShuffledBy(list, draws, i) ==
  IF i <= 1 THEN list
  ELSE ShuffledBy(Swap(list, i, ShuffleIndex(draws[1], i - 1) + 1), Tail(draws), i - 1)

RECURSIVE KruskalOver(_, _, _, _)
KruskalOver(edges, uf, result, fixed) ==
  IF edges = << >> THEN [uf |-> uf, result |-> result]
  ELSE LET r == union(uf, Head(edges).from, Head(edges).to)
       IN KruskalOver(Tail(edges), r.uf,
                      IF fixed \/ r.merged THEN Append(result, Head(edges)) ELSE result,
                      fixed)

AloneMaze(g, draws) ==
  LET edges == BuildEdges(g)
      removable == removableEdgesOf(edges)
      afterFixed == KruskalOver(fixedEdgesOf(edges), EmptyUF, << >>, TRUE)
      shuffled == ShuffledBy(removable, draws, Len(removable))
  IN MakeMaze(g, KruskalOver(shuffled, afterFixed.uf, afterFixed.result, FALSE).result)

(***************************************************************************)
(* C24: two calls of generateMaze on the same grid, each with its own      *)
(* random source and with their steps interleaved in any order, each       *)
(* return the maze the call returns when it runs alone with the values its *)
(* source returned; no call changes the union-find or the edge lists of    *)
(* the other.                                                              *)
(***************************************************************************)
C24_AsWhenAlone ==
  \A c \in CallIds :
    Done(c) => call[c].maze = AloneMaze(grid, call[c].draws)

\* both calls have returned, with different random values and different mazes
C24_Witness ==
  /\ Done(1)
  /\ Done(2)
  /\ call[1].maze # call[2].maze
  /\ call[1].draws # call[2].draws

(***************************************************************************)
(* The walls of a renderable output, found by where they are drawn: the    *)
(* centre of a cell or of a position outside the grid, given by its grid   *)
(* coordinates, and the walls whose middle is halfway between two centres. *)
(***************************************************************************)
Centre(g, a, b) ==
  IF g.kind = "rect" THEN [x |-> << 20 * a, 0 >>, y |-> << 20 * b, 0 >>]
  ELSE [x |-> << 20 * a + 10 * b, 0 >>, y |-> << 0, 10 * b >>]

GridCoords(g, cell) ==
  IF g.kind = "rect" THEN << RectParse(cell).x.v, RectParse(cell).y.v >>
  ELSE << parseAxialCoords(cell).q, parseAxialCoords(cell).r >>

Directions(g) == IF g.kind = "rect" THEN RectDirections ELSE neighborOffsets

\* the indices of the walls of edges drawn between the positions m and n
WallsBetween(g, edges, m, n) ==
  LET Sum(p, q) == << p[1] + q[1], p[2] + q[2] >>
      cm == Centre(g, m[1], m[2])
      cn == Centre(g, n[1], n[2])
  IN { k \in DOMAIN edges :
         /\ Sum(edges[k].x1, edges[k].x2) = Sum(cm.x, cn.x)
         /\ Sum(edges[k].y1, edges[k].y2) = Sum(cm.y, cn.y) }

\* the positions next to cell that are outside the grid
OutwardSides(g, cell) ==
  LET at == GridCoords(g, cell)
  IN { n \in { << at[1] + Directions(g)[k][1], at[2] + Directions(g)[k][2] >> :
                 k \in DOMAIN Directions(g) } :
         ~Includes(Cells(g), CellStr(Num(n[1]), Num(n[2]))) }

Rendered(c) == call[c].query.op = "toRenderable"

(***************************************************************************)
(* C25: in the output of toRenderable for a generated maze, no wall is     *)
(* drawn on a side of the entrance cell or of the exit cell that faces the *)
(* outside of the grid.                                                    *)
(***************************************************************************)
C25_OpenAtEntranceAndExit ==
  (Done(1) /\ Rendered(1)) =>
    \A end \in {call[1].maze.entrance, call[1].maze.exit} :
      \A n \in OutwardSides(grid, end) :
        WallsBetween(grid, call[1].query.value.edges, GridCoords(grid, end), n) = {}

(***************************************************************************)
(* C26: for every maze over the cells of a rectangular grid and every pair *)
(* of neighboring cells, the output of toRenderable holds exactly one wall *)
(* between the two cells when no passage joins them and none when a        *)
(* passage joins them; no wall appears twice in the output.                *)
(***************************************************************************)
C26_WallIffNoPassage ==
  (Rendered(1) /\ grid.kind = "rect") =>
    LET edges == call[1].query.value.edges
        Ends(e) == { << e.x1, e.y1 >>, << e.x2, e.y2 >> }
    IN /\ \A a \in Range(Cells(grid)) :
            \A b \in Range(Neighbors(grid, a)) :
              Cardinality(WallsBetween(grid, edges, GridCoords(grid, a),
                                       GridCoords(grid, b)))
                = IF Joined(call[1].maze, a, b) THEN 0 ELSE 1
       /\ \A j, k \in DOMAIN edges : Ends(edges[j]) = Ends(edges[k]) => j = k

\* a maze built by hand with one passage between neighbors has been drawn:
\* three of the four pairs of neighbors have a wall between them
C26_Witness ==
  /\ Rendered(1)
  /\ grid = HandGrid
  /\ call[1].pc = "built"
  /\ call[1].maze.passages = << makePassage(Cells(grid)[1], Cells(grid)[2]) >>
  /\ Len(call[1].query.value.edges) = 8 + 3

(***************************************************************************)
(* C27: at every point of a spanningTree run the parent pointers lead from *)
(* every node to a root without a cycle; two nodes have the same root      *)
(* exactly when the edges unioned so far (the fixed edges processed and    *)
(* the removable edges accepted) connect them; a node not yet referenced   *)
(* is touched by none of these edges; and find answers that root and       *)
(* leaves every node in its set.                                           *)
(***************************************************************************)
RECURSIVE RootOf(_, _, _)
RootOf(parent, x, fuel) ==
  IF parent[x] = x \/ fuel = 0 THEN x
  ELSE RootOf(parent, parent[x], fuel - 1)

C27_SetsAreComponents ==
  call[1].pc = "running" =>
    LET parent == call[1].uf.parent
        known == DOMAIN parent
        Root(p, x) == RootOf(p, x, Cardinality(known))
    IN /\ DOMAIN call[1].uf.rank = known
       /\ \A x \in known : parent[x] \in known /\ parent[Root(parent, x)] = Root(parent, x)
       /\ \A x, y \in known :
            (Root(parent, x) = Root(parent, y)) <=> Linked(call[1].result, x, y) \/ x = y
       /\ EdgeNodes(call[1].result) \subseteq known
       /\ \A x \in known :
            LET found == find(call[1].uf, x)
            IN /\ found.root = Root(parent, x)
               /\ DOMAIN found.uf.parent = known
               /\ \A y \in known : Root(found.uf.parent, y) = Root(parent, y)

\* four nodes are in one set, one of them two pointers away from the root
C27_Witness ==
  /\ call[1].pc = "running"
  /\ LET parent == call[1].uf.parent
     IN /\ Cardinality(DOMAIN parent) = 4
        /\ \A x, y \in DOMAIN parent : RootOf(parent, x, 4) = RootOf(parent, y, 4)
        /\ \E x \in DOMAIN parent : parent[parent[x]] # parent[x]

(***************************************************************************)
(* C28: isConnected(nodes, edges) answers true exactly when every node of  *)
(* nodes is reached from every other node of nodes along the edges, for    *)
(* every list of edges, also one with edges that touch nodes outside       *)
(* nodes; it answers true for no node and for one node.                    *)
(***************************************************************************)
C28_TrueIffConnected ==
  call[1].query.op = "isConnected" =>
    (call[1].query.value <=>
       \A a, b \in Range(call[1].graph.nodes) :
         a = b \/ Linked(call[1].graph.edges, a, b))

\* the open walls of a wall-tracking grid as edges between the keys of two
\* cells next to each other, each pair once: the wall stands on neither side
OpenWalls(g) ==
  LET SideBySide(d) ==
        [k \in DOMAIN getAllCells(g) |->
           [a |-> getAllCells(g)[k],
            b |-> [row |-> getAllCells(g)[k].row + d.row,
                   col |-> getAllCells(g)[k].col + d.col],
            d |-> d]]
      Open(p) ==
        /\ isValidCoordinate(g, p.b)
        /\ p.d.name \notin g.walls[coordinatesToString(p.a)]
        /\ getDirection(p.b, p.a) \notin g.walls[coordinatesToString(p.b)]
      open == SelectSeq(SideBySide(DIRECTION_DELTAS[2]) \o SideBySide(DIRECTION_DELTAS[3]),
                        Open)
  IN [k \in DOMAIN open |->
        [from |-> coordinatesToString(open[k].a), to |-> coordinatesToString(open[k].b)]]

(***************************************************************************)
(* C29: on a wall-tracking grid of any width and height of at least 1,     *)
(* for any seed and any valid start cell, generateWithDFS returns, it does *)
(* not throw, and it leaves width * height - 1 open walls between cells    *)
(* next to each other, every cell reached from every other cell through    *)
(* open walls.                                                             *)
(***************************************************************************)
C29_DfsLeavesPerfectMaze ==
  (/\ call[1].query.op = "generateWithDFS"
   /\ isValidCoordinate(grid, call[1].query.args[2]))
    => /\ ~call[1].query.threw
       /\ call[1].pc = "generated" =>
            /\ Len(OpenWalls(grid)) = grid.width * grid.height - 1
            /\ \A a, b \in DOMAIN grid.walls :
                 a = b \/ Linked(OpenWalls(grid), a, b)

(***************************************************************************)
(* C30: after any sequence of removeWall calls on a wall-tracking grid,    *)
(* hasNoCycles of MazeValidator.validate(grid) is true exactly when the    *)
(* graph of the open walls between cells has no cycle.                     *)
(***************************************************************************)
C30_NoCyclesIffForest ==
  call[1].query.op = "validate" =>
    (call[1].query.value.hasNoCycles <=> Forest(OpenWalls(grid)))

=============================================================================
